---------------------------- MODULE Spec2Model ----------------------------
(***************************************************************************)
(* A model of wgpu-core's command encoding for clears and compute passes:  *)
(*   src/wgpu-core/src/command/clear.rs    clear_buffer, clear_texture and *)
(*                                         the zero-buffer region synthesis*)
(*   src/wgpu-core/src/command/compute.rs  the compute pass recorder (the  *)
(*                                         compute_ffi module) and the     *)
(*                                         replay of a recorded pass       *)
(*                                                                         *)
(* One command encoder (cmd_buf) and one compute pass object (base) are    *)
(* followed.  The registries (buffers, textures, bind groups, pipelines,   *)
(* layouts, query sets) and the device are fixed tables.                   *)
(*                                                                         *)
(* cmd_buf.raw and the init-action lists of cmd_buf hold what the encoder  *)
(* call in progress, or the one that has just returned, appended to the    *)
(* native command stream and to the lists: they are a window on lists that *)
(* only grow, emptied when the caller goes on to its next call (Collect),  *)
(* so "the call emitted no native call" reads raw = <<>>.                  *)
(***************************************************************************)
EXTENDS Integers, Sequences, FiniteSets, TLC

(***************************************************************************)
(* Bounds of the model.                                                    *)
(***************************************************************************)
\* BufferAddress is u64; the model keeps its wrap-around arithmetic at a
\* reduced width of AddrBits bits.
AddrBits == 5
\* Longest opcode stream a pass records.
MaxCmds == 2

RECURSIVE Pow2(_)
Pow2(n) == IF n = 0 THEN 1 ELSE 2 * Pow2(n - 1)

AddrMod == Pow2(AddrBits)
AddrMax == AddrMod - 1

\* Option<T>: None, or Some(x) holding x.
None == <<>>
Some(x) == <<x>>
unwrap(o) == o[1]

(***************************************************************************)
(* Program constants.                                                      *)
(***************************************************************************)
COPY_BUFFER_ALIGNMENT == 4
\* mem::size_of::<wgt::DispatchIndirectArgs>() and the stride 3 * 4.
DISPATCH_INDIRECT_ARGS_SIZE == 12
\* crate::device::ZERO_BUFFER_SIZE, at a reduced size.
ZERO_BUFFER_SIZE == 32
\* device.alignments.buffer_copy_pitch of the modelled device.
BUFFER_COPY_PITCH == 8
\* cmd_buf.limits of the modelled device.
MAX_BIND_GROUPS_LIMIT == 2
MAX_COMPUTE_WORKGROUPS_PER_DIMENSION == 2

(***************************************************************************)
(* Integer arithmetic of the source.                                       *)
(***************************************************************************)
Min(a, b) == IF a <= b THEN a ELSE b
Max(a, b) == IF a >= b THEN a ELSE b

\* u64 `+`: with overflow checks (debug builds) an overflowing sum panics,
\* without them (release builds) it wraps.  Builds == {"checked", "wrapping"}.
Builds == {"checked", "wrapping"}
Overflows(a, b) == a + b > AddrMax
WrappingAdd(a, b) == (a + b) % AddrMod

\* crate::align_to
align_to(value, alignment) ==
    IF value % alignment = 0 THEN value
    ELSE value - (value % alignment) + alignment

RECURSIVE get_greatest_common_divisor(_, _)
get_greatest_common_divisor(a, b) ==
    IF b = 0 THEN a ELSE get_greatest_common_divisor(b, a % b)

\* crate::get_lowest_common_denom: the least common multiple.
get_lowest_common_denom(a, b) ==
    (a * b) \div (IF a >= b THEN get_greatest_common_divisor(a, b)
                            ELSE get_greatest_common_divisor(b, a))

(***************************************************************************)
(* The buffer registry (hub.buffers).  Id 4 is not in the registry; buffer *)
(* 3 has been destroyed (raw is None).                                     *)
(***************************************************************************)
BufferIds == {1, 2, 3, 4, 5}
ValidBufferIds == {1, 2, 3, 4}

buffer_guard ==
    [id \in ValidBufferIds |->
        CASE id = 1 -> [size |-> 16, usage |-> {"COPY_DST", "INDIRECT", "STORAGE"}, raw |-> Some("raw_buffer_1")]
          [] id = 2 -> [size |-> 16, usage |-> {"STORAGE"}, raw |-> Some("raw_buffer_2")]
          [] id = 3 -> [size |-> 16, usage |-> {"COPY_DST"}, raw |-> None]
          [] id = 4 -> [size |-> 8, usage |-> {"COPY_DST"}, raw |-> Some("raw_buffer_4")]]

\* hal::BufferUses / hal::TextureUses flags that only read; all others are
\* exclusive.
ReadOnlyUses == {"INDIRECT", "STORAGE_READ", "RESOURCE"}


(***************************************************************************)
(* The texture registry (hub.textures).  Id 5 is not in the registry.      *)
(*   1  a colour texture with two mips and two layers, COPY_DST            *)
(*   2  a depth texture                                                    *)
(*   3  a multisampled colour texture                                      *)
(*   4  a colour texture without the COPY_DST usage                        *)
(***************************************************************************)
TextureIds == {1, 2, 3, 4, 5}
ValidTextureIds == {1, 2, 3, 4}

Range(a, b) == [start |-> a, end |-> b]
RangeSet(r) == {i \in 0..(r.end - 1) : i >= r.start}

\* wgt::TextureFormat::describe and hal::FormatAspects::from(format).
format_describe(format) ==
    CASE format = "Rgba8Unorm" ->
            [sample_type |-> "Float", block_dimensions |-> <<1, 1>>, block_size |-> 4,
             aspects |-> {"COLOR"}]
      [] format = "Depth32Float" ->
            [sample_type |-> "Depth", block_dimensions |-> <<1, 1>>, block_size |-> 4,
             aspects |-> {"DEPTH"}]
      [] format = "Bc1RgbaUnorm" ->
            [sample_type |-> "Float", block_dimensions |-> <<4, 4>>, block_size |-> 8,
             aspects |-> {"COLOR"}]

\* hal::FormatAspects::from(wgt::TextureAspect).
TextureAspects == {"All", "StencilOnly", "DepthOnly"}
aspects_from(aspect) ==
    CASE aspect = "All" -> {"COLOR", "DEPTH", "STENCIL"}
      [] aspect = "StencilOnly" -> {"STENCIL"}
      [] aspect = "DepthOnly" -> {"DEPTH"}

TexDesc(format, dimension, width, height, depth_or_array_layers, mips, samples, usage) ==
    [format |-> format, dimension |-> dimension,
     size |-> [width |-> width, height |-> height,
               depth_or_array_layers |-> depth_or_array_layers],
     mip_level_count |-> mips, sample_count |-> samples, usage |-> usage]

texture_guard ==
    [id \in ValidTextureIds |->
        CASE id = 1 ->
                [desc |-> TexDesc("Rgba8Unorm", "D2", 4, 4, 2, 2, 1, {"COPY_DST", "TEXTURE_BINDING"}),
                 full_range |-> [levels |-> Range(0, 2), layers |-> Range(0, 2)],
                 raw |-> Some("raw_texture_1")]
          [] id = 2 ->
                [desc |-> TexDesc("Depth32Float", "D2", 4, 4, 1, 1, 1, {"COPY_DST"}),
                 full_range |-> [levels |-> Range(0, 1), layers |-> Range(0, 1)],
                 raw |-> Some("raw_texture_2")]
          [] id = 3 ->
                [desc |-> TexDesc("Rgba8Unorm", "D2", 4, 4, 1, 1, 4, {"COPY_DST"}),
                 full_range |-> [levels |-> Range(0, 1), layers |-> Range(0, 1)],
                 raw |-> Some("raw_texture_3")]
          [] id = 4 ->
                [desc |-> TexDesc("Rgba8Unorm", "D2", 4, 4, 1, 1, 1, {"TEXTURE_BINDING"}),
                 full_range |-> [levels |-> Range(0, 1), layers |-> Range(0, 1)],
                 raw |-> Some("raw_texture_4")]]

\* The subresources (texture, mip level, array layer) the texture tracker
\* keeps a usage for.
Subresources ==
    {s \in ValidTextureIds \X (0..1) \X (0..1) :
        /\ s[2] \in RangeSet(texture_guard[s[1]].full_range.levels)
        /\ s[3] \in RangeSet(texture_guard[s[1]].full_range.layers)}

\* wgt::TextureDescriptor::mip_level_size, for a level below mip_level_count.
mip_level_size(desc, level) ==
    [width |-> Max(1, desc.size.width \div Pow2(level)),
     height |-> Max(1, desc.size.height \div Pow2(level)),
     depth_or_array_layers |->
        IF desc.dimension = "D3"
        THEN Max(1, desc.size.depth_or_array_layers \div Pow2(level))
        ELSE desc.size.depth_or_array_layers]

(***************************************************************************)
(* collect_zero_buffer_copies_for_clear_texture (clear.rs 284-356).        *)
(***************************************************************************)
\* mip_size with only the width rounded to a multiple of the block size.
aligned_mip_size_width_only(desc, mip_level) ==
    LET f == format_describe(desc.format)
        m == mip_level_size(desc, mip_level)
    IN [m EXCEPT !.width = align_to(m.width, f.block_dimensions[1])]

\* mip_size with width and height rounded to a multiple of the block size.
aligned_mip_size(desc, mip_level) ==
    LET f == format_describe(desc.format)
        m == mip_level_size(desc, mip_level)
    IN [m EXCEPT !.width = align_to(m.width, f.block_dimensions[1]),
                 !.height = align_to(m.height, f.block_dimensions[2])]

\* Bytes per row that are not aligned to the copy pitch.
bytes_per_row_unaligned(desc, buffer_copy_pitch, mip_level) ==
    LET f == format_describe(desc.format)
    IN (aligned_mip_size(desc, mip_level).width \div f.block_dimensions[1]) * f.block_size

\* lines 293-305
bytes_per_row_of(desc, buffer_copy_pitch, mip_level) ==
    LET f == format_describe(desc.format)
        bytes_per_row_alignment == get_lowest_common_denom(buffer_copy_pitch, f.block_size)
    IN align_to((aligned_mip_size(desc, mip_level).width \div f.block_dimensions[1]) * f.block_size,
                bytes_per_row_alignment)

\* The rows the scratch buffer holds, not rounded to whole blocks.
max_rows_per_copy_unrounded(desc, buffer_copy_pitch, mip_level) ==
    ZERO_BUFFER_SIZE \div bytes_per_row_of(desc, buffer_copy_pitch, mip_level)

max_rows_per_copy_of(desc, buffer_copy_pitch, mip_level) ==
    LET f == format_describe(desc.format)
    IN ((ZERO_BUFFER_SIZE \div bytes_per_row_of(desc, buffer_copy_pitch, mip_level))
            \div f.block_dimensions[2]) * f.block_dimensions[2]

\* A chunk height that is not clamped to the rows that are left.
num_rows_unclamped(num_rows_left, max_rows_per_copy) == max_rows_per_copy

\* line 325
num_rows_of(num_rows_left, max_rows_per_copy) == Min(num_rows_left, max_rows_per_copy)

\* The while loop of lines 324-352: the regions of one layer or depth slice.
RECURSIVE copy_rows(_, _, _, _, _, _, _)
copy_rows(mip_level, array_layer, z, mip_size, bytes_per_row, max_rows_per_copy, num_rows_left) ==
    IF num_rows_left > 0
    THEN LET num_rows == num_rows_of(num_rows_left, max_rows_per_copy)
         IN <<[buffer_layout |-> [offset |-> 0, bytes_per_row |-> bytes_per_row,
                                  rows_per_image |-> None],
               texture_base |-> [mip_level |-> mip_level, array_layer |-> array_layer,
                                 origin |-> [x |-> 0, y |-> mip_size.height - num_rows_left,
                                             z |-> z]],
               size |-> [width |-> mip_size.width, height |-> num_rows, depth |-> 1]]>>
            \o copy_rows(mip_level, array_layer, z, mip_size, bytes_per_row,
                         max_rows_per_copy, num_rows_left - num_rows)
    ELSE <<>>

\* for z in z_range (line 322), from slice z on.
RECURSIVE copy_slices(_, _, _, _, _, _, _)
copy_slices(mip_level, array_layer, z, z_end, mip_size, bytes_per_row, max_rows_per_copy) ==
    IF z < z_end
    THEN copy_rows(mip_level, array_layer, z, mip_size, bytes_per_row, max_rows_per_copy,
                   mip_size.height)
         \o copy_slices(mip_level, array_layer, z + 1, z_end, mip_size, bytes_per_row,
                        max_rows_per_copy)
    ELSE <<>>

\* for array_layer in layer_range (line 320), from layer array_layer on.
RECURSIVE copy_layers(_, _, _, _, _, _, _)
copy_layers(mip_level, array_layer, layer_end, z_end, mip_size, bytes_per_row, max_rows_per_copy) ==
    IF array_layer < layer_end
    THEN copy_slices(mip_level, array_layer, 0, z_end, mip_size, bytes_per_row,
                     max_rows_per_copy)
         \o copy_layers(mip_level, array_layer + 1, layer_end, z_end, mip_size,
                        bytes_per_row, max_rows_per_copy)
    ELSE <<>>

\* for mip_level in mip_range (line 296), from level mip_level on.  The
\* result holds the region list, and panic = TRUE when the assertion of line
\* 311 fails on some mip level.
RECURSIVE copy_mips(_, _, _, _, _)
copy_mips(desc, buffer_copy_pitch, mip_level, mip_end, layer_range) ==
    IF mip_level < mip_end
    THEN LET mip_size == aligned_mip_size(desc, mip_level)
             bytes_per_row == bytes_per_row_of(desc, buffer_copy_pitch, mip_level)
             max_rows_per_copy == max_rows_per_copy_of(desc, buffer_copy_pitch, mip_level)
             z_end == IF desc.dimension = "D3" THEN mip_size.depth_or_array_layers ELSE 1
         IN IF ~(max_rows_per_copy > 0) THEN [panic |-> TRUE, regions |-> <<>>]
            ELSE LET rest == copy_mips(desc, buffer_copy_pitch, mip_level + 1, mip_end,
                                       layer_range)
                 IN [panic |-> rest.panic,
                     regions |-> copy_layers(mip_level, layer_range.start, layer_range.end,
                                             z_end, mip_size, bytes_per_row,
                                             max_rows_per_copy) \o rest.regions]
    ELSE [panic |-> FALSE, regions |-> <<>>]

\* A synthesis that stops after the first mip level of the range.
collect_zero_buffer_copies_first_mip(desc, buffer_copy_pitch, mip_range, layer_range) ==
    copy_mips(desc, buffer_copy_pitch, mip_range.start,
              Min(mip_range.start + 1, mip_range.end), layer_range)

\* lines 284-356
collect_zero_buffer_copies_for_clear_texture(desc, buffer_copy_pitch, mip_range, layer_range) ==
    copy_mips(desc, buffer_copy_pitch, mip_range.start, mip_range.end, layer_range)


(***************************************************************************)
(* The registry locks of the hub.  Every entry point starts from           *)
(* Token::root() and takes the RwLock of one registry after another; the   *)
(* guards live until the function returns.                                 *)
(***************************************************************************)
MaxThreads == 3
Threads == 1 .. MaxThreads

Registries ==
    {"devices", "command_buffers", "render_bundles", "pipeline_layouts",
     "bind_groups", "compute_pipelines", "query_sets", "buffers", "textures"}

\* kept is FALSE where the guard is bound to `_` and so dropped at the end of
\* the let statement that took it
Guard(registry, mode, kept) ==
    [registry |-> registry, mode |-> mode, kept |-> kept]

\* command_encoder_clear_buffer: hub.command_buffers.write, hub.buffers.read
clear_buffer_locks ==
    <<Guard("command_buffers", "write", TRUE), Guard("buffers", "read", TRUE)>>

clear_texture_locks_cmd_buf_first ==
    <<Guard("command_buffers", "write", TRUE), Guard("devices", "write", TRUE),
      Guard("buffers", "read", FALSE), Guard("textures", "read", TRUE)>>

\* command_encoder_clear_texture: hub.devices.write, hub.command_buffers.write,
\* hub.buffers.read ("skip token"), hub.textures.read
clear_texture_locks ==
    <<Guard("devices", "write", TRUE), Guard("command_buffers", "write", TRUE),
      Guard("buffers", "read", FALSE), Guard("textures", "read", TRUE)>>

\* command_encoder_run_compute_pass_impl: hub.devices.read,
\* hub.command_buffers.write and then the read guards of the pass
run_compute_pass_locks ==
    <<Guard("devices", "read", TRUE), Guard("command_buffers", "write", TRUE),
      Guard("render_bundles", "read", FALSE),
      Guard("pipeline_layouts", "read", TRUE),
      Guard("bind_groups", "read", TRUE),
      Guard("compute_pipelines", "read", TRUE),
      Guard("query_sets", "read", TRUE), Guard("buffers", "read", TRUE),
      Guard("textures", "read", TRUE)>>

EntryPoints == {"clear_buffer", "clear_texture", "run_compute_pass"}

LocksOf(op) ==
    CASE op = "clear_buffer" -> clear_buffer_locks
      [] op = "clear_texture" -> clear_texture_locks
      [] op = "run_compute_pass" -> run_compute_pass_locks
      [] OTHER -> <<>>

\* a thread outside every entry point
NoThread == [op |-> "none", held |-> 0]

(***************************************************************************)
(* State.                                                                  *)
(*   base     the compute pass being recorded: BasePass<ComputeCommand>    *)
(*   cmd_buf  the command buffer behind the encoder id                     *)
(*   pc       "idle" between calls, "returned" when an encoder call has    *)
(*            returned and its result is being looked at, "panicked" after *)
(*            a panic, and the position of run_compute_pass while it runs: *)
(*            "replay" in the opcode loop, "ended" after the native        *)
(*            end_compute_pass, "fixups" after the status has been set     *)
(*            back to Recording                                            *)
(*   frame    the locals of run_compute_pass while it runs                 *)
(*   result   what the last encoder call returned                          *)
(*   threads  for each thread, the entry point it is in and how many of    *)
(*            that entry point's registry locks it has taken so far        *)
(***************************************************************************)
VARIABLES base, cmd_buf, pc, frame, result, threads

vars == <<base, cmd_buf, pc, frame, result, threads>>

Ok(call) == [call |-> call, ret |-> "Ok"]
Err(call, e) == [call |-> call, ret |-> "Err", err |-> e]
Panicked(call) == [call |-> call, ret |-> "panic"]

NoFrame == [ip |-> 0]

\* BasePass::new
BasePass_new ==
    [commands |-> <<>>, dynamic_offsets |-> <<>>, string_data |-> <<>>,
     push_constant_data |-> <<>>]

Init ==
    /\ base = BasePass_new
    /\ \E support \in BOOLEAN :
          cmd_buf = [status |-> "Recording",
                     support_clear_buffer_texture |-> support,
                     trackers |-> [buffers |-> [id \in ValidBufferIds |-> {}],
                                   textures |-> [s \in Subresources |-> {}]],
                     buffer_memory_init_actions |-> <<>>,
                     texture_memory_actions |-> [discards |-> {}, init_actions |-> <<>>],
                     raw |-> <<>>]
    /\ pc = "idle"
    /\ frame = NoFrame
    /\ result = [call |-> "none", ret |-> "none"]
    /\ threads = [t \in Threads |-> NoThread]

\* The caller has looked at the result of the call that returned and goes
\* on: the window on the native stream and the init-action lists is emptied.
Window(cb) ==
    [cb EXCEPT !.raw = <<>>,
               !.buffer_memory_init_actions = <<>>,
               !.texture_memory_actions.init_actions = <<>>]

NoResult == [call |-> "none", ret |-> "none"]

Collect ==
    /\ pc = "returned"
    /\ pc' = "idle"
    /\ result' = NoResult
    /\ cmd_buf' = Window(cmd_buf)
    /\ frame' = NoFrame
    /\ UNCHANGED <<base, threads>>

\* Where a call that returned ret leaves the caller.
AfterCall(ret) == IF ret.ret = "panic" THEN "panicked" ELSE "returned"

\* An encoder lookup that resolves whatever the status is.
get_encoder_mut_any(cb) == TRUE

\* CommandBuffer::get_encoder_mut: only a command buffer that is recording
\* resolves.
get_encoder_mut(cb) == cb.status = "Recording"

(***************************************************************************)
(* The usage tracker (track): use_replace on the command buffer's tracker. *)
(***************************************************************************)
\* The transition use_replace returns: empty on first use and when the
\* usage does not change.
PendingTransition(id, old, new) ==
    IF old = {} \/ old = new THEN {} ELSE {[id |-> id, old |-> old, new |-> new]}

\* BufferInitTracker::create_action
create_action(id, range, kind) == <<[id |-> id, range |-> range, kind |-> kind]>>

\* transition_buffers / transition_textures with the barriers of `pending`:
\* an empty iterator emits nothing.
Barriers(call, pending) ==
    IF pending = {} THEN <<>> ELSE <<[call |-> call, barriers |-> pending]>>

(***************************************************************************)
(* command_encoder_clear_buffer (clear.rs 72-153).                         *)
(***************************************************************************)
\* A usage check that accepts every buffer.
buffer_has_copy_dst_always(dst_buffer) == TRUE

buffer_has_copy_dst(dst_buffer) == "COPY_DST" \in dst_buffer.usage

\* An offset check that accepts every offset.
offset_is_aligned_always(offset) == TRUE

offset_is_aligned(offset) == offset % COPY_BUFFER_ALIGNMENT = 0

size_is_aligned(size) == size % COPY_BUFFER_ALIGNMENT = 0

\* lines 118-119
overruns(offset, size, dst_buffer) == WrappingAdd(offset, unwrap(size)) > dst_buffer.size

\* An end that is always the end of the buffer.
clear_buffer_end_of_buffer(offset, size, dst_buffer) == dst_buffer.size

\* lines 128-131
clear_buffer_end(offset, size, dst_buffer) ==
    IF size # None THEN WrappingAdd(offset, unwrap(size)) ELSE dst_buffer.size

\* lines 132-135
is_empty_clear(offset, end) == offset = end

\* The body after the encoder has been resolved.  The result is the returned value and the
\* command buffer as the call leaves it.
clear_buffer_body(cb, dst, offset, size, build) ==
    IF ~cb.support_clear_buffer_texture
    THEN [ret |-> Err("clear_buffer", [kind |-> "MissingClearCommandsFeature"]), cmd_buf |-> cb]
    ELSE IF dst \notin ValidBufferIds
    THEN [ret |-> Err("clear_buffer", [kind |-> "InvalidBuffer", id |-> dst]), cmd_buf |-> cb]
    ELSE
    LET dst_buffer == buffer_guard[dst]
        dst_pending == PendingTransition(dst, cb.trackers.buffers[dst], {"COPY_DST"})
        cb1 == [cb EXCEPT !.trackers.buffers[dst] = {"COPY_DST"}]
    IN
    IF dst_buffer.raw = None
    THEN [ret |-> Err("clear_buffer", [kind |-> "InvalidBuffer", id |-> dst]), cmd_buf |-> cb1]
    ELSE IF ~buffer_has_copy_dst(dst_buffer)
    THEN [ret |-> Err("clear_buffer", [kind |-> "MissingCopyDstUsageFlag",
                                       buffer |-> Some(dst), texture |-> None]),
          cmd_buf |-> cb1]
    ELSE IF ~offset_is_aligned(offset)
    THEN [ret |-> Err("clear_buffer", [kind |-> "UnalignedBufferOffset", offset |-> offset]),
          cmd_buf |-> cb1]
    ELSE IF size # None /\ ~size_is_aligned(unwrap(size))
    THEN [ret |-> Err("clear_buffer", [kind |-> "UnalignedFillSize", size |-> size]),
          cmd_buf |-> cb1]
    ELSE IF size # None /\ Overflows(offset, unwrap(size)) /\ build = "checked"
    THEN [ret |-> Panicked("clear_buffer"), cmd_buf |-> cb1]
    ELSE IF size # None /\ overruns(offset, size, dst_buffer)
    THEN [ret |-> Err("clear_buffer", [kind |-> "BufferOverrun", start_offset |-> offset,
                                       end_offset |-> WrappingAdd(offset, unwrap(size)),
                                       buffer_size |-> dst_buffer.size]),
          cmd_buf |-> cb1]
    ELSE
    LET end == clear_buffer_end(offset, size, dst_buffer)
    IN
    IF is_empty_clear(offset, end)
    THEN [ret |-> Ok("clear_buffer"), cmd_buf |-> cb1]
    ELSE [ret |-> Ok("clear_buffer"),
          cmd_buf |->
            [cb1 EXCEPT
                !.buffer_memory_init_actions =
                    @ \o create_action(dst, Range(offset, end), "ImplicitlyInitialized"),
                !.raw = @ \o Barriers("transition_buffers", dst_pending)
                          \o <<[call |-> "clear_buffer", buffer |-> unwrap(dst_buffer.raw),
                                range |-> Range(offset, end)]>>]]

\* The call: offset is a u64, size an Option<NonZeroU64>.  The result is
\* kept together with the arguments of the call.
command_encoder_clear_buffer(dst, offset, size, build) ==
    /\ pc = "idle"
    /\ IF ~get_encoder_mut(cmd_buf)
       THEN /\ result' = Err("clear_buffer", [kind |-> "InvalidCommandEncoder"])
                            @@ [args |-> [dst |-> dst, offset |-> offset, size |-> size]]
            /\ cmd_buf' = cmd_buf
            /\ pc' = "returned"
       ELSE LET out == clear_buffer_body(cmd_buf, dst, offset, size, build)
            IN /\ result' = out.ret @@ [args |-> [dst |-> dst, offset |-> offset,
                                                  size |-> size]]
               /\ cmd_buf' = out.cmd_buf
               /\ pc' = AfterCall(out.ret)
    /\ UNCHANGED <<base, frame, threads>>

(***************************************************************************)
(* command_encoder_clear_texture (clear.rs 155-281).                       *)
(***************************************************************************)
texture_has_copy_dst(dst_texture) == "COPY_DST" \in dst_texture.desc.usage

\* line 199
is_depth_format(dst_texture) == format_describe(dst_texture.desc.format).sample_type = "Depth"

\* A sample-count test that lets the supported sample counts through.
is_multisampled_beyond_4(dst_texture) == dst_texture.desc.sample_count > 4

\* line 202
is_multisampled(dst_texture) == dst_texture.desc.sample_count > 1

\* lines 207-210 and 221-224: the end of the requested range.  The sum is a
\* u32 sum (modelled AddrBits wide): it panics when it overflows in a build
\* with overflow checks and wraps in a build without.
subresource_end_overflows(base_index, count) ==
    count # None /\ Overflows(base_index, unwrap(count))
subresource_end(base_index, count, full) ==
    IF count # None THEN WrappingAdd(base_index, unwrap(count)) ELSE full.end

\* lines 211-212 and 225-226
range_is_outside(full, base_index, end) == full.start > base_index \/ full.end < end

\* The subresources of texture dst in a TextureSelector.
Selected(dst, levels, layers) ==
    {s \in Subresources : s[1] = dst /\ s[2] \in RangeSet(levels) /\ s[3] \in RangeSet(layers)}

\* A clear_texture that copies before it emits the barrier.
clear_texture_body_copy_first(cb, dst, subresource_range, build) ==
    IF ~cb.support_clear_buffer_texture
    THEN [ret |-> Err("clear_texture", [kind |-> "MissingClearCommandsFeature"]), cmd_buf |-> cb]
    ELSE IF dst \notin ValidTextureIds
    THEN [ret |-> Err("clear_texture", [kind |-> "InvalidTexture", id |-> dst]), cmd_buf |-> cb]
    ELSE
    LET dst_texture == texture_guard[dst]
        format_desc == format_describe(dst_texture.desc.format)
        clear_aspects == format_desc.aspects \cap aspects_from(subresource_range.aspect)
        subresource_level_end ==
            subresource_end(subresource_range.base_mip_level,
                            subresource_range.mip_level_count, dst_texture.full_range.levels)
        subresource_layer_end ==
            subresource_end(subresource_range.base_array_layer,
                            subresource_range.array_layer_count, dst_texture.full_range.layers)
        levels == Range(subresource_range.base_mip_level, subresource_level_end)
        layers == Range(subresource_range.base_array_layer, subresource_layer_end)
    IN
    IF clear_aspects = {}
    THEN [ret |-> Err("clear_texture", [kind |-> "MissingTextureAspect",
                                        texture_format |-> dst_texture.desc.format,
                                        subresource_range_aspects |-> subresource_range.aspect]),
          cmd_buf |-> cb]
    ELSE IF is_depth_format(dst_texture)
    THEN [ret |-> Err("clear_texture", [kind |-> "DepthStencilFormatNotSupported"]),
          cmd_buf |-> cb]
    ELSE IF is_multisampled(dst_texture)
    THEN [ret |-> Err("clear_texture", [kind |-> "MultisampledTextureUnsupported"]),
          cmd_buf |-> cb]
    ELSE IF /\ build = "checked"
            /\ subresource_end_overflows(subresource_range.base_mip_level,
                                         subresource_range.mip_level_count)
    THEN [ret |-> Panicked("clear_texture"), cmd_buf |-> cb]
    ELSE IF range_is_outside(dst_texture.full_range.levels,
                             subresource_range.base_mip_level, subresource_level_end)
    THEN [ret |-> Err("clear_texture",
                      [kind |-> "InvalidTextureLevelRange",
                       texture_level_range |-> dst_texture.full_range.levels,
                       subresource_base_mip_level |-> subresource_range.base_mip_level,
                       subresource_mip_level_count |-> subresource_range.mip_level_count]),
          cmd_buf |-> cb]
    ELSE IF /\ build = "checked"
            /\ subresource_end_overflows(subresource_range.base_array_layer,
                                         subresource_range.array_layer_count)
    THEN [ret |-> Panicked("clear_texture"), cmd_buf |-> cb]
    ELSE IF range_is_outside(dst_texture.full_range.layers,
                             subresource_range.base_array_layer, subresource_layer_end)
    THEN [ret |-> Err("clear_texture",
                      [kind |-> "InvalidTextureLayerRange",
                       texture_layer_range |-> dst_texture.full_range.layers,
                       subresource_base_array_layer |-> subresource_range.base_array_layer,
                       subresource_array_layer_count |-> subresource_range.array_layer_count]),
          cmd_buf |-> cb]
    ELSE
    LET selected == Selected(dst, levels, layers)
        dst_pending ==
            UNION {PendingTransition(s, cb.trackers.textures[s], {"COPY_DST"}) : s \in selected}
        cb1 == [cb EXCEPT !.trackers.textures =
                    [s \in Subresources |-> IF s \in selected THEN {"COPY_DST"} ELSE @[s]]]
    IN
    IF dst_texture.raw = None
    THEN [ret |-> Err("clear_texture", [kind |-> "InvalidTexture", id |-> dst]), cmd_buf |-> cb1]
    ELSE IF ~texture_has_copy_dst(dst_texture)
    THEN [ret |-> Err("clear_texture", [kind |-> "MissingCopyDstUsageFlag",
                                        buffer |-> None, texture |-> Some(dst)]),
          cmd_buf |-> cb1]
    ELSE
    LET copies == collect_zero_buffer_copies_for_clear_texture(
                      dst_texture.desc, BUFFER_COPY_PITCH, levels, layers)
    IN
    IF copies.panic
    THEN [ret |-> Panicked("clear_texture"), cmd_buf |-> cb1]
    ELSE [ret |-> Ok("clear_texture"),
          cmd_buf |->
            [cb1 EXCEPT
                !.raw = @ \o (IF copies.regions # <<>>
                              THEN <<[call |-> "copy_buffer_to_texture",
                                      src |-> "zero_buffer", dst |-> unwrap(dst_texture.raw),
                                      regions |-> copies.regions]>>
                              ELSE <<>>)
                          \o Barriers("transition_textures", dst_pending)]]

\* lines 180-281
clear_texture_body(cb, dst, subresource_range, build) ==
    IF ~cb.support_clear_buffer_texture
    THEN [ret |-> Err("clear_texture", [kind |-> "MissingClearCommandsFeature"]), cmd_buf |-> cb]
    ELSE IF dst \notin ValidTextureIds
    THEN [ret |-> Err("clear_texture", [kind |-> "InvalidTexture", id |-> dst]), cmd_buf |-> cb]
    ELSE
    LET dst_texture == texture_guard[dst]
        format_desc == format_describe(dst_texture.desc.format)
        clear_aspects == format_desc.aspects \cap aspects_from(subresource_range.aspect)
        subresource_level_end ==
            subresource_end(subresource_range.base_mip_level,
                            subresource_range.mip_level_count, dst_texture.full_range.levels)
        subresource_layer_end ==
            subresource_end(subresource_range.base_array_layer,
                            subresource_range.array_layer_count, dst_texture.full_range.layers)
        levels == Range(subresource_range.base_mip_level, subresource_level_end)
        layers == Range(subresource_range.base_array_layer, subresource_layer_end)
    IN
    IF clear_aspects = {}
    THEN [ret |-> Err("clear_texture", [kind |-> "MissingTextureAspect",
                                        texture_format |-> dst_texture.desc.format,
                                        subresource_range_aspects |-> subresource_range.aspect]),
          cmd_buf |-> cb]
    ELSE IF is_depth_format(dst_texture)
    THEN [ret |-> Err("clear_texture", [kind |-> "DepthStencilFormatNotSupported"]),
          cmd_buf |-> cb]
    ELSE IF is_multisampled(dst_texture)
    THEN [ret |-> Err("clear_texture", [kind |-> "MultisampledTextureUnsupported"]),
          cmd_buf |-> cb]
    ELSE IF /\ build = "checked"
            /\ subresource_end_overflows(subresource_range.base_mip_level,
                                         subresource_range.mip_level_count)
    THEN [ret |-> Panicked("clear_texture"), cmd_buf |-> cb]
    ELSE IF range_is_outside(dst_texture.full_range.levels,
                             subresource_range.base_mip_level, subresource_level_end)
    THEN [ret |-> Err("clear_texture",
                      [kind |-> "InvalidTextureLevelRange",
                       texture_level_range |-> dst_texture.full_range.levels,
                       subresource_base_mip_level |-> subresource_range.base_mip_level,
                       subresource_mip_level_count |-> subresource_range.mip_level_count]),
          cmd_buf |-> cb]
    ELSE IF /\ build = "checked"
            /\ subresource_end_overflows(subresource_range.base_array_layer,
                                         subresource_range.array_layer_count)
    THEN [ret |-> Panicked("clear_texture"), cmd_buf |-> cb]
    ELSE IF range_is_outside(dst_texture.full_range.layers,
                             subresource_range.base_array_layer, subresource_layer_end)
    THEN [ret |-> Err("clear_texture",
                      [kind |-> "InvalidTextureLayerRange",
                       texture_layer_range |-> dst_texture.full_range.layers,
                       subresource_base_array_layer |-> subresource_range.base_array_layer,
                       subresource_array_layer_count |-> subresource_range.array_layer_count]),
          cmd_buf |-> cb]
    ELSE
    LET selected == Selected(dst, levels, layers)
        dst_pending ==
            UNION {PendingTransition(s, cb.trackers.textures[s], {"COPY_DST"}) : s \in selected}
        cb1 == [cb EXCEPT !.trackers.textures =
                    [s \in Subresources |-> IF s \in selected THEN {"COPY_DST"} ELSE @[s]]]
    IN
    IF dst_texture.raw = None
    THEN [ret |-> Err("clear_texture", [kind |-> "InvalidTexture", id |-> dst]), cmd_buf |-> cb1]
    ELSE IF ~texture_has_copy_dst(dst_texture)
    THEN [ret |-> Err("clear_texture", [kind |-> "MissingCopyDstUsageFlag",
                                        buffer |-> None, texture |-> Some(dst)]),
          cmd_buf |-> cb1]
    ELSE
    LET copies == collect_zero_buffer_copies_for_clear_texture(
                      dst_texture.desc, BUFFER_COPY_PITCH, levels, layers)
    IN
    IF copies.panic
    THEN [ret |-> Panicked("clear_texture"), cmd_buf |-> cb1]
    ELSE [ret |-> Ok("clear_texture"),
          cmd_buf |->
            [cb1 EXCEPT
                !.raw = @ \o Barriers("transition_textures", dst_pending)
                          \o (IF copies.regions # <<>>
                              THEN <<[call |-> "copy_buffer_to_texture",
                                      src |-> "zero_buffer", dst |-> unwrap(dst_texture.raw),
                                      regions |-> copies.regions]>>
                              ELSE <<>>)]]

\* The call: subresource_range is a wgt::ImageSubresourceRange.  The result
\* is kept together with the arguments of the call.
command_encoder_clear_texture(dst, subresource_range, build) ==
    /\ pc = "idle"
    /\ IF ~get_encoder_mut(cmd_buf)
       THEN /\ result' = Err("clear_texture", [kind |-> "InvalidCommandEncoder"])
                            @@ [args |-> [dst |-> dst, subresource_range |-> subresource_range]]
            /\ cmd_buf' = cmd_buf
            /\ pc' = "returned"
       ELSE LET out == clear_texture_body(cmd_buf, dst, subresource_range, build)
            IN /\ result' = out.ret @@ [args |-> [dst |-> dst,
                                                  subresource_range |-> subresource_range]]
               /\ cmd_buf' = out.cmd_buf
               /\ pc' = AfterCall(out.ret)
    /\ UNCHANGED <<base, frame, threads>>

(***************************************************************************)
(* Inputs of the clear calls.                                              *)
(***************************************************************************)
ClearOffsets == {0, 4, 6, 8, 16, 20, AddrMod - 4}
ClearSizes == {None, Some(4), Some(6), Some(16), Some(AddrMod - 4)}
\* The overflow behaviours that make a difference for offset + size.
BuildsFor(offset, size) ==
    IF size # None /\ Overflows(offset, unwrap(size)) THEN Builds ELSE {"wrapping"}

\* (base, count) pairs of a mip or layer range
IndexRanges ==
    {<<0, None>>, <<0, Some(1)>>, <<0, Some(2)>>, <<1, None>>, <<1, Some(1)>>,
     <<1, Some(2)>>, <<2, None>>, <<3, None>>, <<AddrMax, Some(2)>>}
SubresourceRange(aspect, mips, layers) ==
    [aspect |-> aspect, base_mip_level |-> mips[1], mip_level_count |-> mips[2],
     base_array_layer |-> layers[1], array_layer_count |-> layers[2]]
\* Every aspect with the whole texture, and every pair of ranges with all
\* aspects.
SubresourceRanges ==
    {SubresourceRange(aspect, <<0, None>>, <<0, None>>) : aspect \in TextureAspects}
    \cup {SubresourceRange("All", mips, layers) : mips \in IndexRanges, layers \in IndexRanges}

ClearBuffer ==
    \E dst \in BufferIds, offset \in ClearOffsets, size \in ClearSizes :
        \E build \in BuildsFor(offset, size) :
            command_encoder_clear_buffer(dst, offset, size, build)

\* The overflow behaviours that make a difference for base + count.
BuildsForRange(subresource_range) ==
    IF \/ subresource_end_overflows(subresource_range.base_mip_level,
                                    subresource_range.mip_level_count)
       \/ subresource_end_overflows(subresource_range.base_array_layer,
                                    subresource_range.array_layer_count)
    THEN Builds ELSE {"wrapping"}

ClearTexture ==
    \E dst \in TextureIds, subresource_range \in SubresourceRanges :
        \E build \in BuildsForRange(subresource_range) :
            command_encoder_clear_texture(dst, subresource_range, build)

NextClear == ClearBuffer \/ ClearTexture \/ Collect

SpecClear == Init /\ [][NextClear]_vars

(***************************************************************************)
(* Region synthesis on its own: collect_zero_buffer_copies_for_clear_      *)
(* texture applied to the descriptors and ranges its callers can pass: the *)
(* sizes of block-compressed textures are multiples of the block, the mip  *)
(* range is inside the texture's mips and the layer range inside its array *)
(* layers (one layer for a 3D texture).                                    *)
(***************************************************************************)
TextureDescs ==
    {d \in {TexDesc(format, dimension, width, height, layers, mips, 1, {"COPY_DST"}) :
                format \in {"Rgba8Unorm", "Bc1RgbaUnorm"}, dimension \in {"D2", "D3"},
                width \in {1, 4, 5, 8, 16}, height \in {1, 3, 4, 8},
                layers \in {1, 2}, mips \in {1, 2}} :
        /\ d.size.width % format_describe(d.format).block_dimensions[1] = 0
        /\ d.size.height % format_describe(d.format).block_dimensions[2] = 0
        /\ d.mip_level_count = 2 => (d.size.width > 1 \/ d.size.height > 1)}

\* The ranges a..b inside 0..n, the empty ones included.
SubRanges(n) == {r \in {Range(a, b) : a \in 0..n, b \in 0..n} : r.start <= r.end}

CopyPitches == {4, BUFFER_COPY_PITCH}

CollectZeroBufferCopies ==
    /\ pc = "idle"
    /\ \E desc \in TextureDescs, buffer_copy_pitch \in CopyPitches :
         \E mip_range \in SubRanges(desc.mip_level_count),
            layer_range \in SubRanges(IF desc.dimension = "D3" THEN 1
                                      ELSE desc.size.depth_or_array_layers) :
            LET out == collect_zero_buffer_copies_for_clear_texture(
                           desc, buffer_copy_pitch, mip_range, layer_range)
                call == [call |-> "collect_zero_buffer_copies",
                         ret |-> IF out.panic THEN "panic" ELSE "Ok",
                         args |-> [desc |-> desc, buffer_copy_pitch |-> buffer_copy_pitch,
                                   mip_range |-> mip_range, layer_range |-> layer_range],
                         out_copy_regions |-> IF out.panic THEN <<>> ELSE out.regions]
            IN /\ result' = call
               /\ pc' = AfterCall(call)
    /\ UNCHANGED <<base, cmd_buf, frame, threads>>

NextCollect == CollectZeroBufferCopies \/ Collect

SpecCollect == Init /\ [][NextCollect]_vars

(***************************************************************************)
(* The registries a compute pass resolves ids in.                          *)
(***************************************************************************)
\* hub.pipeline_layouts: the bind group layout expected in each slot and the
\* push constant ranges of the compute stage.
PipelineLayoutIds == {1, 2}
pipeline_layout_guard ==
    [id \in PipelineLayoutIds |->
        CASE id = 1 -> [bind_group_layout_ids |-> <<1>>,
                        push_constant_ranges |-> <<[stages |-> "COMPUTE", range |-> Range(0, 8)]>>]
          [] id = 2 -> [bind_group_layout_ids |-> <<1, 2>>,
                        push_constant_ranges |-> <<[stages |-> "COMPUTE", range |-> Range(0, 4)]>>]]

\* hub.compute_pipelines.  Pipelines 1 and 3 share layout 1; id 4 is not in
\* the registry.
ComputePipelineIds == {1, 2, 3, 4}
ValidComputePipelineIds == {1, 2, 3}
pipeline_guard ==
    [id \in ValidComputePipelineIds |->
        [layout_id |-> IF id = 2 THEN 2 ELSE 1, raw |-> id]]

\* hub.bind_groups.  Id 3 is not in the registry.
\*   1  layout 1: reads buffer 1 and samples surface (1, 0, 0) of texture 1
\*   2  layout 2: writes buffer 1, with one dynamic offset
\*   4  layout 1: writes buffer 1
BindGroupIds == {1, 2, 3, 4}
ValidBindGroupIds == {1, 2, 4}
bind_group_guard ==
    [id \in ValidBindGroupIds |->
        CASE id = 1 ->
                [layout_id |-> 1,
                 dynamic_binding_count |-> 0,
                 used |-> [buffers |-> [b \in ValidBufferIds |->
                                            IF b = 1 THEN {"STORAGE_READ"} ELSE {}],
                           textures |-> [t \in Subresources |->
                                            IF t = <<1, 0, 0>> THEN {"RESOURCE"} ELSE {}]],
                 used_buffer_ranges |->
                    <<[id |-> 1, range |-> Range(0, 16), kind |-> "NeedsInitializedMemory"]>>,
                 used_texture_ranges |->
                    <<[id |-> 1, range |-> [mip_range |-> Range(0, 1),
                                            layer_range |-> Range(0, 1)],
                       kind |-> "NeedsInitializedMemory"]>>]
          [] id = 2 ->
                [layout_id |-> 2,
                 dynamic_binding_count |-> 1,
                 used |-> [buffers |-> [b \in ValidBufferIds |->
                                            IF b = 1 THEN {"STORAGE_WRITE"} ELSE {}],
                           textures |-> [t \in Subresources |-> {}]],
                 used_buffer_ranges |->
                    <<[id |-> 1, range |-> Range(0, 16), kind |-> "NeedsInitializedMemory"]>>,
                 used_texture_ranges |-> <<>>]
          [] id = 4 ->
                [layout_id |-> 1,
                 dynamic_binding_count |-> 0,
                 used |-> [buffers |-> [b \in ValidBufferIds |->
                                            IF b = 1 THEN {"STORAGE_WRITE"} ELSE {}],
                           textures |-> [t \in Subresources |-> {}]],
                 used_buffer_ranges |->
                    <<[id |-> 1, range |-> Range(0, 16), kind |-> "NeedsInitializedMemory"]>>,
                 used_texture_ranges |-> <<>>]]

\* hub.query_sets.  Id 3 is not in the registry.
QuerySetIds == {1, 2, 3}
ValidQuerySetIds == {1, 2}
query_set_guard ==
    [id \in ValidQuerySetIds |->
        [ty |-> IF id = 1 THEN "Timestamp" ELSE "PipelineStatistics", count |-> 1]]

\* device.require_downlevel_flags(INDIRECT_EXECUTION) of the modelled device.
HasIndirectExecution == TRUE

(***************************************************************************)
(* The pass recorder: compute_ffi (compute.rs 729-906).  Every function    *)
(* pushes one ComputeCommand and extends at most one side buffer.          *)
(***************************************************************************)
U8Max == 255
PUSH_CONSTANT_ALIGNMENT == 4

Push(command) == [base EXCEPT !.commands = Append(@, command)]

Recorded(b) ==
    /\ pc = "idle"
    /\ base' = b
    /\ UNCHANGED <<cmd_buf, pc, frame, result, threads>>

\* try_into().unwrap() of a value that does not fit a u8, or a failed
\* assert_eq!, panics.
RecorderPanics ==
    /\ pc = "idle"
    /\ pc' = "panicked"
    /\ result' = Panicked("recorder")
    /\ UNCHANGED <<base, cmd_buf, frame, threads>>

wgpu_compute_pass_set_bind_group(index, bind_group_id, offsets) ==
    IF index > U8Max \/ Len(offsets) > U8Max
    THEN RecorderPanics
    ELSE Recorded([Push([op |-> "SetBindGroup", index |-> index,
                         num_dynamic_offsets |-> Len(offsets),
                         bind_group_id |-> bind_group_id])
                     EXCEPT !.dynamic_offsets = @ \o offsets])

wgpu_compute_pass_set_pipeline(pipeline_id) ==
    Recorded(Push([op |-> "SetPipeline", pipeline_id |-> pipeline_id]))

\* u32::from_ne_bytes of the four bytes of one chunk (little endian target).
from_ne_bytes(arr) == arr[1] + 256 * arr[2] + 65536 * arr[3] + 16777216 * arr[4]

\* data_slice.chunks_exact(4).map(from_ne_bytes): the words of `data`.
RECURSIVE words_of(_)
words_of(data) ==
    IF Len(data) < PUSH_CONSTANT_ALIGNMENT THEN <<>>
    ELSE <<from_ne_bytes(SubSeq(data, 1, 4))>> \o words_of(SubSeq(data, 5, Len(data)))

\* data points to size_bytes bytes: Len(data) = size_bytes.
wgpu_compute_pass_set_push_constant(offset, size_bytes, data) ==
    IF offset % PUSH_CONSTANT_ALIGNMENT # 0 \/ size_bytes % PUSH_CONSTANT_ALIGNMENT # 0
    THEN RecorderPanics
    ELSE LET value_offset == Len(base.push_constant_data)
         IN Recorded([Push([op |-> "SetPushConstant", offset |-> offset,
                            size_bytes |-> size_bytes, values_offset |-> value_offset])
                        EXCEPT !.push_constant_data = @ \o words_of(data)])

wgpu_compute_pass_dispatch(groups_x, groups_y, groups_z) ==
    Recorded(Push([op |-> "Dispatch", groups |-> <<groups_x, groups_y, groups_z>>]))

wgpu_compute_pass_dispatch_indirect(buffer_id, offset) ==
    Recorded(Push([op |-> "DispatchIndirect", buffer_id |-> buffer_id, offset |-> offset]))

\* label is the byte string of a C string.
wgpu_compute_pass_push_debug_group(label, color) ==
    Recorded([Push([op |-> "PushDebugGroup", color |-> color, len |-> Len(label)])
                EXCEPT !.string_data = @ \o label])

wgpu_compute_pass_pop_debug_group ==
    Recorded(Push([op |-> "PopDebugGroup"]))

wgpu_compute_pass_insert_debug_marker(label, color) ==
    Recorded([Push([op |-> "InsertDebugMarker", color |-> color, len |-> Len(label)])
                EXCEPT !.string_data = @ \o label])

wgpu_compute_pass_write_timestamp(query_set_id, query_index) ==
    Recorded(Push([op |-> "WriteTimestamp", query_set_id |-> query_set_id,
                   query_index |-> query_index]))

wgpu_compute_pass_begin_pipeline_statistics_query(query_set_id, query_index) ==
    Recorded(Push([op |-> "BeginPipelineStatisticsQuery", query_set_id |-> query_set_id,
                   query_index |-> query_index]))

wgpu_compute_pass_end_pipeline_statistics_query ==
    Recorded(Push([op |-> "EndPipelineStatisticsQuery"]))

(***************************************************************************)
(* The collaborators of the replay that live outside compute.rs: the       *)
(* binder (command/bind.rs), StateChange, the trackers, the memory-init    *)
(* bookkeeping and the query sets.                                         *)
(***************************************************************************)
Slots == 0..(MAX_BIND_GROUPS_LIMIT - 1)

\* Binder::new
Binder_new ==
    [pipeline_layout_id |-> None,
     entries |-> [i \in Slots |-> [assigned |-> None, expected |-> None]],
     payloads |-> [i \in Slots |-> [group_id |-> None, dynamic_offsets |-> <<>>]]]

entry_is_valid(e) == e.expected = None \/ e.expected = e.assigned
entry_is_active(e) == e.assigned # None /\ e.expected # None

SetMin(S) == CHOOSE x \in S : \A y \in S : x <= y

\* compat::Manager::make_range: from start_index up to the first entry
\* that is not bound as expected.
make_range(entries, start_index) ==
    LET bad == {i \in Slots : entries[i].expected = None
                              \/ entries[i].assigned # entries[i].expected}
        end == IF bad = {} THEN MAX_BIND_GROUPS_LIMIT ELSE SetMin(bad)
    IN Range(start_index, Max(end, start_index))

\* The payloads of the slots of a range, in slot order.
RECURSIVE payloads_in(_, _, _)
payloads_in(payloads, start, end) ==
    IF start < end THEN <<payloads[start]>> \o payloads_in(payloads, start + 1, end)
    ELSE <<>>

\* Binder::assign_group: the binder after the assignment and the entries to
\* bind natively.
assign_group(binder, index, bind_group_id, offsets) ==
    LET payloads == [binder.payloads EXCEPT ![index] =
                        [group_id |-> Some(bind_group_id), dynamic_offsets |-> offsets]]
        entries == [binder.entries EXCEPT ![index].assigned =
                        Some(bind_group_guard[bind_group_id].layout_id)]
        bind_range == make_range(entries, index)
    IN [binder |-> [binder EXCEPT !.payloads = payloads, !.entries = entries],
        entries |-> payloads_in(payloads, bind_range.start, bind_range.end)]

\* compat::Manager::update_expectations
update_expectations(entries, expectations) ==
    LET n == Len(expectations)
        differ == {i \in Slots : i < n /\ entries[i].expected # Some(expectations[i + 1])}
        start_index == IF differ = {} THEN n ELSE SetMin(differ)
        updated == [i \in Slots |->
                        IF i >= n THEN [entries[i] EXCEPT !.expected = None]
                        ELSE IF i >= start_index
                        THEN [entries[i] EXCEPT !.expected = Some(expectations[i + 1])]
                        ELSE entries[i]]
    IN [entries |-> updated, range |-> make_range(updated, start_index)]

\* Binder::change_pipeline_layout: the binder, the first slot to rebind (the
\* first slot whose expected layout changes) and the entries to rebind (the
\* slots from there on that are bound as the new layout expects).
change_pipeline_layout(binder, new_id) ==
    LET new == pipeline_layout_guard[new_id]
        upd == update_expectations(binder.entries, new.bind_group_layout_ids)
        start == upd.range.start
    IN [binder |-> [binder EXCEPT !.pipeline_layout_id = Some(new_id),
                                  !.entries = upd.entries],
        start_index |-> start,
        entries |-> payloads_in(binder.payloads, start, upd.range.end)]

\* Binder::list_active: the bind groups of the active slots, in slot order.
RECURSIVE list_active_from(_, _)
list_active_from(binder, i) ==
    IF i >= MAX_BIND_GROUPS_LIMIT THEN <<>>
    ELSE (IF entry_is_active(binder.entries[i])
          THEN <<unwrap(binder.payloads[i].group_id)>> ELSE <<>>)
         \o list_active_from(binder, i + 1)
list_active(binder) == list_active_from(binder, 0)

\* Binder::invalid_mask: bit i is set when slot i is not bound as expected.
RECURSIVE invalid_mask_from(_, _)
invalid_mask_from(binder, i) ==
    IF i >= MAX_BIND_GROUPS_LIMIT THEN 0
    ELSE (IF entry_is_valid(binder.entries[i]) THEN 0 ELSE Pow2(i))
         + invalid_mask_from(binder, i + 1)
invalid_mask(binder) == invalid_mask_from(binder, 0)

\* u8::trailing_zeros of a mask that is not 0.
RECURSIVE trailing_zeros(_)
trailing_zeros(mask) == IF mask % 2 = 1 THEN 0 ELSE 1 + trailing_zeros(mask \div 2)

\* BindGroup::validate_dynamic_bindings: the number of offsets.
validate_dynamic_bindings(bind_group, offsets) ==
    IF Len(offsets) # bind_group.dynamic_binding_count
    THEN Some([kind |-> "MismatchedDynamicOffsetCount",
               actual |-> Len(offsets), expected |-> bind_group.dynamic_binding_count])
    ELSE None

\* BufferInitTracker::check_action: no buffer of the model has initialized
\* ranges, so the action is kept as it is.
check_action(action) == <<action>>

\* The surfaces (texture, mip, layer) an init action covers.
SurfacesOf(action) ==
    {s \in Subresources : /\ s[1] = action.id
                          /\ s[2] \in RangeSet(action.range.mip_range)
                          /\ s[3] \in RangeSet(action.range.layer_range)}

\* A set of surfaces as a list, in increasing order.
RECURSIVE SetToSeq(_)
SetToSeq(S) ==
    IF S = {} THEN <<>>
    ELSE LET x == CHOOSE x \in S : \A y \in S :
                    x[1] < y[1] \/ (x[1] = y[1] /\ (x[2] < y[2] \/ (x[2] = y[2] /\ x[3] <= y[3])))
         IN <<x>> \o SetToSeq(S \ {x})

\* CommandBufferTextureMemoryActions::register_init_action: the action is
\* recorded, the discarded surfaces it reads leave the discard list, are
\* marked implicitly initialized and are returned as necessary clears.
register_init_action(tma, action) ==
    LET hit == IF action.kind = "NeedsInitializedMemory"
               THEN tma.discards \cap SurfacesOf(action) ELSE {}
    IN [texture_memory_actions |->
            [discards |-> tma.discards \ SurfacesOf(action),
             init_actions |-> tma.init_actions \o <<action>>
                \o [i \in 1..Len(SetToSeq(hit)) |->
                        [id |-> SetToSeq(hit)[i][1],
                         range |-> [mip_range |-> Range(SetToSeq(hit)[i][2], SetToSeq(hit)[i][2] + 1),
                                    layer_range |-> Range(SetToSeq(hit)[i][3], SetToSeq(hit)[i][3] + 1)],
                         kind |-> "ImplicitlyInitialized"]]],
        clears |-> SetToSeq(hit)]

\* A render pass of the same command buffer that stores a surface with the
\* discard store-op puts it on the discard list.
discard_surface(s) ==
    /\ pc = "idle"
    /\ get_encoder_mut(cmd_buf)
    /\ s \notin cmd_buf.texture_memory_actions.discards
    /\ cmd_buf' = [cmd_buf EXCEPT !.texture_memory_actions.discards = @ \cup {s}]
    /\ UNCHANGED <<base, pc, frame, result, threads>>

\* The native calls `calls`, each marked with the position `at` of the
\* opcode they were emitted for (0: before the first opcode).
RawAt(at, calls) == [i \in 1..Len(calls) |-> calls[i] @@ [at |-> at]]

\* memory_init::fixup_discarded_surfaces: one surface after the other is
\* moved to COPY_DST in the command buffer's tracker and cleared with a copy
\* from the zero buffer.
RECURSIVE fixup_discarded_surfaces(_, _, _)
fixup_discarded_surfaces(inits, cb, at) ==
    IF inits = <<>> THEN cb
    ELSE LET init == Head(inits)
             texture == texture_guard[init[1]]
             pending == PendingTransition(init, cb.trackers.textures[init], {"COPY_DST"})
             copies == collect_zero_buffer_copies_for_clear_texture(
                            texture.desc, BUFFER_COPY_PITCH,
                            Range(init[2], init[2] + 1), Range(init[3], init[3] + 1))
             cb1 == [cb EXCEPT
                        !.trackers.textures[init] = {"COPY_DST"},
                        !.raw = @ \o RawAt(at,
                                    Barriers("transition_textures", pending)
                                    \o <<[call |-> "copy_buffer_to_texture", src |-> "zero_buffer",
                                          dst |-> unwrap(texture.raw),
                                          regions |-> copies.regions,
                                          fixup |-> init]>>)]
         IN fixup_discarded_surfaces(Tail(inits), cb1, at)

\* ResourceTracker/TrackerSet::merge_extend of one usage: a conflict when
\* the usages differ and one of them is exclusive.
usage_conflicts(old, new) ==
    old # {} /\ new # {} /\ old # new /\ ~((old \cup new) \subseteq ReadOnlyUses)

\* StatefulTrackerSubset::merge_extend(&bind_group.used): the merged
\* trackers, or the first resource in conflict.
merge_extend(trackers, used) ==
    LET bad_buffers == {b \in ValidBufferIds : usage_conflicts(trackers.buffers[b], used.buffers[b])}
        bad_textures == {t \in Subresources : usage_conflicts(trackers.textures[t], used.textures[t])}
    IN IF bad_buffers # {}
       THEN [conflict |-> Some([kind |-> "UsageConflict", resource |-> "buffer",
                                id |-> SetMin(bad_buffers)]),
             trackers |-> trackers]
       ELSE IF bad_textures # {}
       THEN [conflict |-> Some([kind |-> "UsageConflict", resource |-> "texture",
                                id |-> Head(SetToSeq(bad_textures))[1]]),
             trackers |-> trackers]
       ELSE [conflict |-> None,
             trackers |-> [buffers |-> [b \in ValidBufferIds |->
                                            trackers.buffers[b] \cup used.buffers[b]],
                           textures |-> [t \in Subresources |->
                                            trackers.textures[t] \cup used.textures[t]]]]

EmptyTrackers ==
    [buffers |-> [b \in ValidBufferIds |-> {}], textures |-> [t \in Subresources |-> {}]]

\* CommandBuffer::insert_barriers: the base tracker takes over every usage of
\* the local tracker; the transitions become native barriers.
insert_barriers(cb, local, at) ==
    LET buffer_barriers ==
            UNION {PendingTransition(b, cb.trackers.buffers[b], local.buffers[b]) :
                        b \in {b \in ValidBufferIds : local.buffers[b] # {}}}
        texture_barriers ==
            UNION {PendingTransition(t, cb.trackers.textures[t], local.textures[t]) :
                        t \in {t \in Subresources : local.textures[t] # {}}}
    IN [cb EXCEPT
            !.trackers.buffers = [b \in ValidBufferIds |->
                                    IF local.buffers[b] # {} THEN local.buffers[b] ELSE @[b]],
            !.trackers.textures = [t \in Subresources |->
                                    IF local.textures[t] # {} THEN local.textures[t] ELSE @[t]],
            !.raw = @ \o RawAt(at, Barriers("transition_buffers", buffer_barriers)
                                   \o Barriers("transition_textures", texture_barriers))]

\* StatefulTrackerSubset::buffers.use_extend of the local tracker.
use_extend(trackers, buffer_id, usage) ==
    [trackers EXCEPT !.buffers[buffer_id] = @ \cup usage]

\* PipelineLayout::validate_push_constant_ranges for the compute stage: the
\* written bytes must lie inside a range of the stage.
validate_push_constant_ranges(layout, offset, end_offset) ==
    IF offset % PUSH_CONSTANT_ALIGNMENT # 0
    THEN Some([kind |-> "PushConstantUnaligned", offset |-> offset])
    ELSE IF \E i \in 1..Len(layout.push_constant_ranges) :
                /\ layout.push_constant_ranges[i].stages = "COMPUTE"
                /\ layout.push_constant_ranges[i].range.start <= offset
                /\ end_offset <= layout.push_constant_ranges[i].range.end
    THEN None
    ELSE Some([kind |-> "PushConstantRangeMismatch", offset |-> offset,
               end_offset |-> end_offset])

\* bind::compute_nonoverlapping_ranges of the ranges of one layout: the
\* layouts of the model have one range each, which is its own result.
compute_nonoverlapping_ranges(ranges) == ranges

\* push_constant_clear: the words of the range are written as zeros.
push_constant_clear(layout_id, offset, size_bytes) ==
    IF size_bytes \div PUSH_CONSTANT_ALIGNMENT > 0
    THEN <<[call |-> "set_push_constants", layout |-> layout_id, stages |-> "COMPUTE",
            offset |-> offset,
            data |-> [i \in 1..(size_bytes \div PUSH_CONSTANT_ALIGNMENT) |-> 0]]>>
    ELSE <<>>

RECURSIVE clear_push_constant_ranges(_, _)
clear_push_constant_ranges(layout_id, ranges) ==
    IF ranges = <<>> THEN <<>>
    ELSE push_constant_clear(layout_id, Head(ranges).range.start,
                             Head(ranges).range.end - Head(ranges).range.start)
         \o clear_push_constant_ranges(layout_id, Tail(ranges))

\* QuerySet::validate_query: the type of the set, then the index.
validate_query(query_set_id, ty, query_index) ==
    LET query_set == query_set_guard[query_set_id]
    IN IF query_set.ty # ty
       THEN Some([kind |-> "IncompatibleType", set_type |-> query_set.ty, query_type |-> ty])
       ELSE IF query_index >= query_set.count
       THEN Some([kind |-> "OutOfBounds", query_index |-> query_index,
                  query_set_size |-> query_set.count])
       ELSE None

\* str::from_utf8 on a label whose bytes are below 224: one-byte characters
\* and two-byte characters with a continuation byte.
RECURSIVE is_utf8(_)
is_utf8(bytes) ==
    IF bytes = <<>> THEN TRUE
    ELSE IF Head(bytes) < 128 THEN is_utf8(Tail(bytes))
    ELSE IF Head(bytes) >= 194 /\ Head(bytes) < 224 /\ Len(bytes) >= 2
            /\ bytes[2] >= 128 /\ bytes[2] < 192
    THEN is_utf8(Tail(Tail(bytes)))
    ELSE FALSE

(***************************************************************************)
(* command_encoder_run_compute_pass_impl (compute.rs 284-726).  The call   *)
(* is taken opcode by opcode: RunBegin is lines 297-338, each arm of the   *)
(* loop is one step, and the tail is lines 710-725.                        *)
(***************************************************************************)
\* lines 321-330 and 338
State_new ==
    [ip |-> 1,
     binder |-> Binder_new,
     pipeline |-> [last_state |-> None],
     trackers |-> EmptyTrackers,
     debug_scope_depth |-> 0,
     dynamic_offset_count |-> 0,
     string_offset |-> 0,
     active_query |-> None,
     pending_discard_init_fixups |-> <<>>]

\* What one arm of the loop does: go on with the next opcode, return an
\* error, or panic.
Continue(fr, cb) == [flow |-> "next", frame |-> fr, cmd_buf |-> cb]
Return_in_pass_scope(scope, inner, fr, cb) ==
    [flow |-> "err", err |-> [scope |-> [scope |-> "Pass"], inner |-> inner],
     frame |-> fr, cmd_buf |-> cb]
Return(scope, inner, fr, cb) ==
    [flow |-> "err", err |-> [scope |-> scope, inner |-> inner], frame |-> fr, cmd_buf |-> cb]
Panic(fr, cb) == [flow |-> "panic", frame |-> fr, cmd_buf |-> cb]

Emit(cb, at, calls) == [cb EXCEPT !.raw = @ \o RawAt(at, calls)]

\* The native set_bind_group calls for the entries of a rebind, lines
\* 402-412 and 442-453.
set_bind_groups(layout_id, first, entries) ==
    [i \in 1..Len(entries) |->
        [call |-> "set_bind_group", layout |-> layout_id, index |-> first + i - 1,
         group |-> unwrap(entries[i].group_id),
         dynamic_offsets |-> entries[i].dynamic_offsets]]

\* lines 384-390: every used texture range is registered; the clears that
\* become necessary are appended to the pending fixups.
RECURSIVE register_used_texture_ranges(_, _, _)
register_used_texture_ranges(actions, tma, pending) ==
    IF actions = <<>> THEN [texture_memory_actions |-> tma, pending |-> pending]
    ELSE LET r == register_init_action(tma, Head(actions))
         IN register_used_texture_ranges(Tail(actions), r.texture_memory_actions,
                                         pending \o r.clears)

\* A SetBindGroup that takes its dynamic offsets before it tests the slot.
SetBindGroup_offsets_first(c, fr, cb) ==
    LET scope == [scope |-> "SetBindGroup", id |-> c.bind_group_id]
        temp_offsets == SubSeq(base.dynamic_offsets, fr.dynamic_offset_count + 1,
                               fr.dynamic_offset_count + c.num_dynamic_offsets)
        fr1 == [fr EXCEPT !.dynamic_offset_count = @ + c.num_dynamic_offsets]
    IN
    IF c.index >= MAX_BIND_GROUPS_LIMIT
    THEN Return(scope, [kind |-> "BindGroupIndexOutOfRange", index |-> c.index,
                        max |-> MAX_BIND_GROUPS_LIMIT], fr1, cb)
    ELSE IF c.bind_group_id \notin ValidBindGroupIds
    THEN Return(scope, [kind |-> "InvalidBindGroup", id |-> c.bind_group_id], fr1, cb)
    ELSE
    LET bind_group == bind_group_guard[c.bind_group_id]
        invalid == validate_dynamic_bindings(bind_group, temp_offsets)
    IN
    IF invalid # None THEN Return(scope, unwrap(invalid), fr1, cb)
    ELSE
    LET buffer_actions ==
            [i \in 1..Len(bind_group.used_buffer_ranges) |->
                check_action(bind_group.used_buffer_ranges[i])[1]]
        reg == register_used_texture_ranges(bind_group.used_texture_ranges,
                                            cb.texture_memory_actions,
                                            fr.pending_discard_init_fixups)
        pipeline_layout_id == fr.binder.pipeline_layout_id
        assigned == assign_group(fr.binder, c.index, c.bind_group_id, temp_offsets)
        fr2 == [fr1 EXCEPT !.binder = assigned.binder,
                           !.pending_discard_init_fixups = reg.pending]
        cb1 == [cb EXCEPT !.buffer_memory_init_actions = @ \o buffer_actions,
                          !.texture_memory_actions = reg.texture_memory_actions]
    IN
    IF assigned.entries # <<>>
    THEN Continue(fr2, Emit(cb1, fr.ip,
                    set_bind_groups(unwrap(pipeline_layout_id), c.index, assigned.entries)))
    ELSE Continue(fr2, cb1)

\* A SetBindGroup that merges the usages of the bind group into the command
\* buffer's tracker when it binds.
SetBindGroup_merges_at_once(c, fr, cb) ==
    LET scope == [scope |-> "SetBindGroup", id |-> c.bind_group_id]
        temp_offsets == SubSeq(base.dynamic_offsets, fr.dynamic_offset_count + 1,
                               fr.dynamic_offset_count + c.num_dynamic_offsets)
        fr1 == [fr EXCEPT !.dynamic_offset_count = @ + c.num_dynamic_offsets]
    IN
    IF c.index >= MAX_BIND_GROUPS_LIMIT
    THEN Return(scope, [kind |-> "BindGroupIndexOutOfRange", index |-> c.index,
                        max |-> MAX_BIND_GROUPS_LIMIT], fr, cb)
    ELSE IF c.bind_group_id \notin ValidBindGroupIds
    THEN Return(scope, [kind |-> "InvalidBindGroup", id |-> c.bind_group_id], fr1, cb)
    ELSE
    LET bind_group == bind_group_guard[c.bind_group_id]
        invalid == validate_dynamic_bindings(bind_group, temp_offsets)
    IN
    IF invalid # None THEN Return(scope, unwrap(invalid), fr1, cb)
    ELSE
    LET buffer_actions ==
            [i \in 1..Len(bind_group.used_buffer_ranges) |->
                check_action(bind_group.used_buffer_ranges[i])[1]]
        reg == register_used_texture_ranges(bind_group.used_texture_ranges,
                                            cb.texture_memory_actions,
                                            fr.pending_discard_init_fixups)
        pipeline_layout_id == fr.binder.pipeline_layout_id
        assigned == assign_group(fr.binder, c.index, c.bind_group_id, temp_offsets)
        fr2 == [fr1 EXCEPT !.binder = assigned.binder,
                           !.pending_discard_init_fixups = reg.pending]
        cb1 == insert_barriers(
                    [cb EXCEPT !.buffer_memory_init_actions = @ \o buffer_actions,
                               !.texture_memory_actions = reg.texture_memory_actions],
                    bind_group.used, fr.ip)
    IN
    IF assigned.entries # <<>>
    THEN Continue(fr2, Emit(cb1, fr.ip,
                    set_bind_groups(unwrap(pipeline_layout_id), c.index, assigned.entries)))
    ELSE Continue(fr2, cb1)

\* lines 342-414
SetBindGroup(c, fr, cb) ==
    LET scope == [scope |-> "SetBindGroup", id |-> c.bind_group_id]
        temp_offsets == SubSeq(base.dynamic_offsets, fr.dynamic_offset_count + 1,
                               fr.dynamic_offset_count + c.num_dynamic_offsets)
        fr1 == [fr EXCEPT !.dynamic_offset_count = @ + c.num_dynamic_offsets]
    IN
    IF c.index >= MAX_BIND_GROUPS_LIMIT
    THEN Return(scope, [kind |-> "BindGroupIndexOutOfRange", index |-> c.index,
                        max |-> MAX_BIND_GROUPS_LIMIT], fr, cb)
    ELSE IF c.bind_group_id \notin ValidBindGroupIds
    THEN Return(scope, [kind |-> "InvalidBindGroup", id |-> c.bind_group_id], fr1, cb)
    ELSE
    LET bind_group == bind_group_guard[c.bind_group_id]
        invalid == validate_dynamic_bindings(bind_group, temp_offsets)
    IN
    IF invalid # None THEN Return(scope, unwrap(invalid), fr1, cb)
    ELSE
    LET buffer_actions ==
            [i \in 1..Len(bind_group.used_buffer_ranges) |->
                check_action(bind_group.used_buffer_ranges[i])[1]]
        reg == register_used_texture_ranges(bind_group.used_texture_ranges,
                                            cb.texture_memory_actions,
                                            fr.pending_discard_init_fixups)
        pipeline_layout_id == fr.binder.pipeline_layout_id
        assigned == assign_group(fr.binder, c.index, c.bind_group_id, temp_offsets)
        fr2 == [fr1 EXCEPT !.binder = assigned.binder,
                           !.pending_discard_init_fixups = reg.pending]
        cb1 == [cb EXCEPT !.buffer_memory_init_actions = @ \o buffer_actions,
                          !.texture_memory_actions = reg.texture_memory_actions]
    IN
    IF assigned.entries # <<>>
    THEN Continue(fr2, Emit(cb1, fr.ip,
                    set_bind_groups(unwrap(pipeline_layout_id), c.index, assigned.entries)))
    ELSE Continue(fr2, cb1)

\* A SetPipeline that binds the pipeline whether or not it is the current one.
SetPipeline_always_binds(c, fr, cb) ==
    LET scope == [scope |-> "SetPipelineCompute", id |-> c.pipeline_id]
        redundant == FALSE
        fr1 == [fr EXCEPT !.pipeline.last_state = Some(c.pipeline_id)]
    IN
    IF redundant THEN Continue(fr1, cb)
    ELSE IF c.pipeline_id \notin ValidComputePipelineIds
    THEN Return(scope, [kind |-> "InvalidPipeline", id |-> c.pipeline_id], fr1, cb)
    ELSE
    LET pipeline == pipeline_guard[c.pipeline_id]
        cb1 == Emit(cb, fr.ip, <<[call |-> "set_compute_pipeline", pipeline |-> pipeline.raw]>>)
    IN
    IF fr.binder.pipeline_layout_id # Some(pipeline.layout_id)
    THEN LET pipeline_layout == pipeline_layout_guard[pipeline.layout_id]
             changed == change_pipeline_layout(fr.binder, pipeline.layout_id)
             non_overlapping == compute_nonoverlapping_ranges(pipeline_layout.push_constant_ranges)
         IN Continue([fr1 EXCEPT !.binder = changed.binder],
                     Emit(cb1, fr.ip,
                          set_bind_groups(pipeline.layout_id, changed.start_index, changed.entries)
                          \o clear_push_constant_ranges(pipeline.layout_id, non_overlapping)))
    ELSE Continue(fr1, cb1)

\* A SetPipeline that rebinds on a change of layout and leaves the push
\* constants as they are.
SetPipeline_keeps_push_constants(c, fr, cb) ==
    LET scope == [scope |-> "SetPipelineCompute", id |-> c.pipeline_id]
        redundant == fr.pipeline.last_state = Some(c.pipeline_id)
        fr1 == [fr EXCEPT !.pipeline.last_state = Some(c.pipeline_id)]
    IN
    IF redundant THEN Continue(fr1, cb)
    ELSE IF c.pipeline_id \notin ValidComputePipelineIds
    THEN Return(scope, [kind |-> "InvalidPipeline", id |-> c.pipeline_id], fr1, cb)
    ELSE
    LET pipeline == pipeline_guard[c.pipeline_id]
        cb1 == Emit(cb, fr.ip, <<[call |-> "set_compute_pipeline", pipeline |-> pipeline.raw]>>)
    IN
    IF fr.binder.pipeline_layout_id # Some(pipeline.layout_id)
    THEN LET pipeline_layout == pipeline_layout_guard[pipeline.layout_id]
             changed == change_pipeline_layout(fr.binder, pipeline.layout_id)
             non_overlapping == compute_nonoverlapping_ranges(pipeline_layout.push_constant_ranges)
         IN Continue([fr1 EXCEPT !.binder = changed.binder],
                     Emit(cb1, fr.ip,
                          set_bind_groups(pipeline.layout_id, changed.start_index, changed.entries)))
    ELSE Continue(fr1, cb1)

\* lines 415-477
SetPipeline(c, fr, cb) ==
    LET scope == [scope |-> "SetPipelineCompute", id |-> c.pipeline_id]
        redundant == fr.pipeline.last_state = Some(c.pipeline_id)
        fr1 == [fr EXCEPT !.pipeline.last_state = Some(c.pipeline_id)]
    IN
    IF redundant THEN Continue(fr1, cb)
    ELSE IF c.pipeline_id \notin ValidComputePipelineIds
    THEN Return(scope, [kind |-> "InvalidPipeline", id |-> c.pipeline_id], fr1, cb)
    ELSE
    LET pipeline == pipeline_guard[c.pipeline_id]
        cb1 == Emit(cb, fr.ip, <<[call |-> "set_compute_pipeline", pipeline |-> pipeline.raw]>>)
    IN
    IF fr.binder.pipeline_layout_id # Some(pipeline.layout_id)
    THEN LET pipeline_layout == pipeline_layout_guard[pipeline.layout_id]
             changed == change_pipeline_layout(fr.binder, pipeline.layout_id)
             non_overlapping == compute_nonoverlapping_ranges(pipeline_layout.push_constant_ranges)
         IN Continue([fr1 EXCEPT !.binder = changed.binder],
                     Emit(cb1, fr.ip,
                          set_bind_groups(pipeline.layout_id, changed.start_index, changed.entries)
                          \o clear_push_constant_ranges(pipeline.layout_id, non_overlapping)))
    ELSE Continue(fr1, cb1)

\* lines 478-517
SetPushConstant(c, fr, cb) ==
    LET scope == [scope |-> "SetPushConstant"]
        end_offset_bytes == c.offset + c.size_bytes
        values_end_offset == c.values_offset + c.size_bytes \div PUSH_CONSTANT_ALIGNMENT
        data_slice == SubSeq(base.push_constant_data, c.values_offset + 1, values_end_offset)
    IN
    IF fr.binder.pipeline_layout_id = None
    THEN Return(scope, [kind |-> "Dispatch", error |-> [kind |-> "MissingPipeline"]], fr, cb)
    ELSE
    LET pipeline_layout_id == unwrap(fr.binder.pipeline_layout_id)
        invalid == validate_push_constant_ranges(pipeline_layout_guard[pipeline_layout_id],
                                                 c.offset, end_offset_bytes)
    IN
    IF invalid # None THEN Return(scope, unwrap(invalid), fr, cb)
    ELSE Continue(fr, Emit(cb, fr.ip,
                    <<[call |-> "set_push_constants", layout |-> pipeline_layout_id,
                       stages |-> "COMPUTE", offset |-> c.offset, data |-> data_slice]>>))

\* A readiness test without the pipeline test.
is_ready_without_pipeline(fr) ==
    LET bind_mask == invalid_mask(fr.binder)
    IN IF bind_mask # 0
       THEN Some([kind |-> "IncompatibleBindGroup", index |-> trailing_zeros(bind_mask)])
       ELSE None

\* A readiness test that reports the highest invalid slot.
is_ready_highest_slot(fr) ==
    LET invalid == {i \in Slots : ~entry_is_valid(fr.binder.entries[i])}
    IN IF invalid # {}
       THEN Some([kind |-> "IncompatibleBindGroup",
                  index |-> CHOOSE i \in invalid : \A j \in invalid : j <= i])
       ELSE IF fr.pipeline.last_state = None
       THEN Some([kind |-> "MissingPipeline"])
       ELSE None

\* State::is_ready, lines 227-240
is_ready(fr) ==
    LET bind_mask == invalid_mask(fr.binder)
    IN IF bind_mask # 0
       THEN Some([kind |-> "IncompatibleBindGroup", index |-> trailing_zeros(bind_mask)])
       ELSE IF fr.pipeline.last_state = None
       THEN Some([kind |-> "MissingPipeline"])
       ELSE None

\* lines 250-254: the usages of the active bind groups are merged into the
\* local tracker, up to the first conflict.
RECURSIVE merge_active(_, _)
merge_active(ids, trackers) ==
    IF ids = <<>> THEN [conflict |-> None, trackers |-> trackers]
    ELSE LET m == merge_extend(trackers, bind_group_guard[Head(ids)].used)
         IN IF m.conflict # None THEN m ELSE merge_active(Tail(ids), m.trackers)

\* A flush that leaves the merged usages in the local tracker.
flush_states_keeps_trackers(fr, cb) ==
    LET m == merge_active(list_active(fr.binder), fr.trackers)
    IN IF m.conflict # None
       THEN [conflict |-> m.conflict, frame |-> [fr EXCEPT !.trackers = m.trackers],
             cmd_buf |-> cb]
       ELSE [conflict |-> None, frame |-> [fr EXCEPT !.trackers = m.trackers],
             cmd_buf |-> insert_barriers(cb, m.trackers, fr.ip)]

\* A flush that drops the result of the merge and inserts the barriers of
\* whatever was merged.
flush_states_ignoring_conflict(fr, cb) ==
    LET m == merge_active(list_active(fr.binder), fr.trackers)
    IN [conflict |-> None, frame |-> [fr EXCEPT !.trackers = EmptyTrackers],
        cmd_buf |-> insert_barriers(cb, m.trackers, fr.ip)]

\* State::flush_states, lines 242-269
flush_states(fr, cb) ==
    LET m == merge_active(list_active(fr.binder), fr.trackers)
    IN IF m.conflict # None
       THEN [conflict |-> m.conflict, frame |-> [fr EXCEPT !.trackers = m.trackers],
             cmd_buf |-> cb]
       ELSE [conflict |-> None, frame |-> [fr EXCEPT !.trackers = EmptyTrackers],
             cmd_buf |-> insert_barriers(cb, m.trackers, fr.ip)]

\* A Dispatch that also rejects a count equal to the limit.
Dispatch_rejecting_limit(c, fr, cb) ==
    LET scope == [scope |-> "Dispatch", indirect |-> FALSE, pipeline |-> fr.pipeline.last_state]
        cb1 == fixup_discarded_surfaces(fr.pending_discard_init_fixups, cb, fr.ip)
        fr1 == [fr EXCEPT !.pending_discard_init_fixups = <<>>]
        not_ready == is_ready(fr1)
    IN
    IF not_ready # None
    THEN Return(scope, [kind |-> "Dispatch", error |-> unwrap(not_ready)], fr1, cb1)
    ELSE
    LET flushed == flush_states(fr1, cb1)
    IN
    IF flushed.conflict # None
    THEN Return(scope, unwrap(flushed.conflict), flushed.frame, flushed.cmd_buf)
    ELSE IF \E i \in 1..3 : c.groups[i] >= MAX_COMPUTE_WORKGROUPS_PER_DIMENSION
    THEN Return(scope, [kind |-> "Dispatch",
                        error |-> [kind |-> "InvalidGroupSize", current |-> c.groups,
                                   limit |-> MAX_COMPUTE_WORKGROUPS_PER_DIMENSION]],
                flushed.frame, flushed.cmd_buf)
    ELSE Continue(flushed.frame,
                  Emit(flushed.cmd_buf, fr.ip, <<[call |-> "dispatch", groups |-> c.groups]>>))

\* lines 518-561
Dispatch(c, fr, cb) ==
    LET scope == [scope |-> "Dispatch", indirect |-> FALSE, pipeline |-> fr.pipeline.last_state]
        cb1 == fixup_discarded_surfaces(fr.pending_discard_init_fixups, cb, fr.ip)
        fr1 == [fr EXCEPT !.pending_discard_init_fixups = <<>>]
        not_ready == is_ready(fr1)
    IN
    IF not_ready # None
    THEN Return(scope, [kind |-> "Dispatch", error |-> unwrap(not_ready)], fr1, cb1)
    ELSE
    LET flushed == flush_states(fr1, cb1)
    IN
    IF flushed.conflict # None
    THEN Return(scope, unwrap(flushed.conflict), flushed.frame, flushed.cmd_buf)
    ELSE IF \E i \in 1..3 : c.groups[i] > MAX_COMPUTE_WORKGROUPS_PER_DIMENSION
    THEN Return(scope, [kind |-> "Dispatch",
                        error |-> [kind |-> "InvalidGroupSize", current |-> c.groups,
                                   limit |-> MAX_COMPUTE_WORKGROUPS_PER_DIMENSION]],
                flushed.frame, flushed.cmd_buf)
    ELSE Continue(flushed.frame,
                  Emit(flushed.cmd_buf, fr.ip, <<[call |-> "dispatch", groups |-> c.groups]>>))

\* lines 562-621.  offset is a u64.
DispatchIndirect(c, fr, cb, build) ==
    LET scope == [scope |-> "Dispatch", indirect |-> TRUE, pipeline |-> fr.pipeline.last_state]
        not_ready == is_ready(fr)
    IN
    IF not_ready # None
    THEN Return(scope, [kind |-> "Dispatch", error |-> unwrap(not_ready)], fr, cb)
    ELSE IF ~HasIndirectExecution
    THEN Return(scope, [kind |-> "MissingDownlevelFlags"], fr, cb)
    ELSE IF c.buffer_id \notin ValidBufferIds
    THEN Return(scope, [kind |-> "InvalidIndirectBuffer", id |-> c.buffer_id], fr, cb)
    ELSE
    LET indirect_buffer == buffer_guard[c.buffer_id]
        fr1 == [fr EXCEPT !.trackers = use_extend(@, c.buffer_id, {"INDIRECT"})]
        end_offset == WrappingAdd(c.offset, DISPATCH_INDIRECT_ARGS_SIZE)
        stride == DISPATCH_INDIRECT_ARGS_SIZE
    IN
    IF "INDIRECT" \notin indirect_buffer.usage
    THEN Return(scope, [kind |-> "MissingBufferUsage", actual |-> indirect_buffer.usage,
                        expected |-> "INDIRECT"], fr1, cb)
    ELSE IF Overflows(c.offset, DISPATCH_INDIRECT_ARGS_SIZE) /\ build = "checked"
    THEN Panic(fr1, cb)
    ELSE IF end_offset > indirect_buffer.size
    THEN Return(scope, [kind |-> "IndirectBufferOverrun", offset |-> c.offset,
                        end_offset |-> end_offset, buffer_size |-> indirect_buffer.size],
                fr1, cb)
    ELSE IF indirect_buffer.raw = None
    THEN Return(scope, [kind |-> "InvalidIndirectBuffer", id |-> c.buffer_id], fr1, cb)
    ELSE
    LET cb1 == [cb EXCEPT !.buffer_memory_init_actions =
                    @ \o create_action(c.buffer_id,
                                       Range(c.offset, WrappingAdd(c.offset, stride)),
                                       "NeedsInitializedMemory")]
        flushed == flush_states(fr1, cb1)
    IN
    IF flushed.conflict # None
    THEN Return(scope, unwrap(flushed.conflict), flushed.frame, flushed.cmd_buf)
    ELSE Continue(flushed.frame,
                  Emit(flushed.cmd_buf, fr.ip,
                       <<[call |-> "dispatch_indirect", buffer |-> unwrap(indirect_buffer.raw),
                          offset |-> c.offset]>>))

\* lines 622-631.  debug_scope_depth is a u32, modelled DepthBits wide: the
\* increment panics when it overflows in a build with overflow checks and
\* wraps in a build without.
DepthBits == 2
DepthMod == Pow2(DepthBits)
depth_overflows(depth) == depth + 1 >= DepthMod

PushDebugGroup(c, fr, cb, build) ==
    LET label == SubSeq(base.string_data, fr.string_offset + 1, fr.string_offset + c.len)
        fr1 == [fr EXCEPT !.debug_scope_depth = (@ + 1) % DepthMod]
    IN IF depth_overflows(fr.debug_scope_depth) /\ build = "checked" THEN Panic(fr, cb)
       ELSE IF ~is_utf8(label) THEN Panic(fr1, cb)
       ELSE Continue([fr1 EXCEPT !.string_offset = @ + c.len],
                     Emit(cb, fr.ip, <<[call |-> "begin_debug_marker", label |-> label]>>))

\* lines 632-643
PopDebugGroup(c, fr, cb) ==
    IF fr.debug_scope_depth = 0
    THEN Return([scope |-> "PopDebugGroup"], [kind |-> "InvalidPopDebugGroup"], fr, cb)
    ELSE Continue([fr EXCEPT !.debug_scope_depth = @ - 1],
                  Emit(cb, fr.ip, <<[call |-> "end_debug_marker"]>>))

\* A marker that leaves the label cursor where it is.
InsertDebugMarker_keeps_offset(c, fr, cb) ==
    LET label == SubSeq(base.string_data, fr.string_offset + 1, fr.string_offset + c.len)
    IN IF ~is_utf8(label) THEN Panic(fr, cb)
       ELSE Continue(fr, Emit(cb, fr.ip, <<[call |-> "insert_debug_marker", label |-> label]>>))

\* lines 644-650
InsertDebugMarker(c, fr, cb) ==
    LET label == SubSeq(base.string_data, fr.string_offset + 1, fr.string_offset + c.len)
    IN IF ~is_utf8(label) THEN Panic(fr, cb)
       ELSE Continue([fr EXCEPT !.string_offset = @ + c.len],
                     Emit(cb, fr.ip, <<[call |-> "insert_debug_marker", label |-> label]>>))

\* lines 651-672
WriteTimestamp(c, fr, cb) ==
    LET scope == [scope |-> "WriteTimestamp"]
    IN
    IF c.query_set_id \notin ValidQuerySetIds
    THEN Return(scope, [kind |-> "InvalidQuerySet", id |-> c.query_set_id], fr, cb)
    ELSE
    LET invalid == validate_query(c.query_set_id, "Timestamp", c.query_index)
    IN IF invalid # None
       THEN Return(scope, [kind |-> "QueryUse", error |-> unwrap(invalid)], fr, cb)
       ELSE Continue(fr, Emit(cb, fr.ip,
                        <<[call |-> "reset_queries", set |-> c.query_set_id,
                           index |-> c.query_index],
                          [call |-> "write_timestamp", set |-> c.query_set_id,
                           index |-> c.query_index]>>))

\* lines 673-700
BeginPipelineStatisticsQuery(c, fr, cb) ==
    LET scope == [scope |-> "BeginPipelineStatisticsQuery"]
    IN
    IF c.query_set_id \notin ValidQuerySetIds
    THEN Return(scope, [kind |-> "InvalidQuerySet", id |-> c.query_set_id], fr, cb)
    ELSE
    LET invalid == validate_query(c.query_set_id, "PipelineStatistics", c.query_index)
        fr1 == [fr EXCEPT !.active_query = Some(<<c.query_set_id, c.query_index>>)]
    IN IF invalid # None
       THEN Return(scope, [kind |-> "QueryUse", error |-> unwrap(invalid)], fr, cb)
       ELSE IF fr.active_query # None
       THEN Return(scope, [kind |-> "QueryUse",
                           error |-> [kind |-> "AlreadyStarted",
                                      active_query_index |-> unwrap(fr.active_query)[2],
                                      new_query_index |-> c.query_index]], fr1, cb)
       ELSE Continue(fr1, Emit(cb, fr.ip,
                        <<[call |-> "reset_queries", set |-> c.query_set_id,
                           index |-> c.query_index],
                          [call |-> "begin_query", set |-> c.query_set_id,
                           index |-> c.query_index]>>))

\* lines 701-706
EndPipelineStatisticsQuery(c, fr, cb) ==
    IF fr.active_query = None
    THEN Return([scope |-> "EndPipelineStatisticsQuery"],
                [kind |-> "QueryUse", error |-> [kind |-> "AlreadyStopped"]], fr, cb)
    ELSE Continue([fr EXCEPT !.active_query = None],
                  Emit(cb, fr.ip, <<[call |-> "end_query",
                                     set |-> unwrap(fr.active_query)[1],
                                     index |-> unwrap(fr.active_query)[2]]>>))

\* A run that leaves the status as it finds it.
poison_omitted(cb) == cb

\* line 301
poison(cb) == [cb EXCEPT !.status = "Error"]

\* line 713
unpoison(cb) == [cb EXCEPT !.status = "Recording"]

PassError(scope, inner) == Err("run_compute_pass", [scope |-> scope, inner |-> inner])

\* lines 297-338: the encoder is resolved and poisoned, the native pass is
\* begun and the locals are set up.
command_encoder_run_compute_pass ==
    /\ pc = "idle"
    /\ IF ~get_encoder_mut(cmd_buf)
       THEN /\ result' = PassError([scope |-> "Pass"], [kind |-> "InvalidCommandEncoder"])
            /\ pc' = "returned"
            /\ UNCHANGED <<cmd_buf, frame>>
       ELSE /\ cmd_buf' = Emit(poison(cmd_buf), 0, <<[call |-> "begin_compute_pass"]>>)
            /\ frame' = State_new
            /\ pc' = "replay"
            /\ UNCHANGED result
    /\ UNCHANGED <<base, threads>>

\* The opcode at the replay position is `op`.
Fetch(op) ==
    /\ pc = "replay"
    /\ frame.ip <= Len(base.commands)
    /\ base.commands[frame.ip].op = op

\* A loop that notes the error of an arm and goes on with the next opcode.
Step_goes_on(out) ==
    /\ cmd_buf' = out.cmd_buf
    /\ frame' = IF out.flow = "panic" THEN out.frame ELSE [out.frame EXCEPT !.ip = @ + 1]
    /\ pc' = IF out.flow = "panic" THEN "panicked" ELSE "replay"
    /\ result' = CASE out.flow = "next" -> result
                   [] out.flow = "err" -> Err("run_compute_pass", out.err) @@ [at |-> frame.ip]
                   [] out.flow = "panic" -> Panicked("run_compute_pass")
    /\ UNCHANGED <<base, threads>>

\* The loop goes on with the next opcode, or the call returns the error of
\* the arm at once, or panics.  The returned error is kept together with the
\* position of the opcode that failed.
Step(out) ==
    /\ cmd_buf' = out.cmd_buf
    /\ frame' = IF out.flow = "next" THEN [out.frame EXCEPT !.ip = @ + 1] ELSE out.frame
    /\ pc' = CASE out.flow = "next" -> "replay"
               [] out.flow = "err" -> "returned"
               [] out.flow = "panic" -> "panicked"
    /\ result' = CASE out.flow = "next" -> result
                   [] out.flow = "err" -> Err("run_compute_pass", out.err) @@ [at |-> frame.ip]
                   [] out.flow = "panic" -> Panicked("run_compute_pass")
    /\ UNCHANGED <<base, threads>>

ReplaySetBindGroup ==
    Fetch("SetBindGroup") /\ Step(SetBindGroup(base.commands[frame.ip], frame, cmd_buf))
ReplaySetPipeline ==
    Fetch("SetPipeline") /\ Step(SetPipeline(base.commands[frame.ip], frame, cmd_buf))
ReplaySetPushConstant ==
    Fetch("SetPushConstant") /\ Step(SetPushConstant(base.commands[frame.ip], frame, cmd_buf))
ReplayDispatch ==
    Fetch("Dispatch") /\ Step(Dispatch(base.commands[frame.ip], frame, cmd_buf))
ReplayDispatchIndirect ==
    /\ Fetch("DispatchIndirect")
    /\ \E build \in IF Overflows(base.commands[frame.ip].offset, DISPATCH_INDIRECT_ARGS_SIZE)
                    THEN Builds ELSE {"wrapping"} :
          Step(DispatchIndirect(base.commands[frame.ip], frame, cmd_buf, build))
ReplayPushDebugGroup ==
    /\ Fetch("PushDebugGroup")
    /\ \E build \in IF depth_overflows(frame.debug_scope_depth) THEN Builds ELSE {"wrapping"} :
          Step(PushDebugGroup(base.commands[frame.ip], frame, cmd_buf, build))
ReplayPopDebugGroup ==
    Fetch("PopDebugGroup") /\ Step(PopDebugGroup(base.commands[frame.ip], frame, cmd_buf))
ReplayInsertDebugMarker ==
    Fetch("InsertDebugMarker") /\ Step(InsertDebugMarker(base.commands[frame.ip], frame, cmd_buf))
ReplayWriteTimestamp ==
    Fetch("WriteTimestamp") /\ Step(WriteTimestamp(base.commands[frame.ip], frame, cmd_buf))
ReplayBeginPipelineStatisticsQuery ==
    /\ Fetch("BeginPipelineStatisticsQuery")
    /\ Step(BeginPipelineStatisticsQuery(base.commands[frame.ip], frame, cmd_buf))
ReplayEndPipelineStatisticsQuery ==
    /\ Fetch("EndPipelineStatisticsQuery")
    /\ Step(EndPipelineStatisticsQuery(base.commands[frame.ip], frame, cmd_buf))

\* lines 710-712: the loop is over, the native pass is ended.
EndComputePass ==
    /\ pc = "replay"
    /\ frame.ip > Len(base.commands)
    /\ cmd_buf' = Emit(cmd_buf, frame.ip, <<[call |-> "end_compute_pass"]>>)
    /\ pc' = "ended"
    /\ UNCHANGED <<base, frame, result, threads>>

\* line 713
ResetStatus ==
    /\ pc = "ended"
    /\ cmd_buf' = unpoison(cmd_buf)
    /\ pc' = "fixups"
    /\ UNCHANGED <<base, frame, result, threads>>

\* A tail that returns Ok with the pending fixups dropped.
FinalFixups_skipped ==
    /\ pc = "fixups"
    /\ frame' = [frame EXCEPT !.pending_discard_init_fixups = <<>>]
    /\ result' = Ok("run_compute_pass")
    /\ pc' = "returned"
    /\ UNCHANGED <<base, cmd_buf, threads>>

\* lines 717-725: the fixups that are still pending are applied and the call
\* returns Ok.
FinalFixups ==
    /\ pc = "fixups"
    /\ cmd_buf' = fixup_discarded_surfaces(frame.pending_discard_init_fixups, cmd_buf, frame.ip)
    /\ frame' = [frame EXCEPT !.pending_discard_init_fixups = <<>>]
    /\ result' = Ok("run_compute_pass")
    /\ pc' = "returned"
    /\ UNCHANGED <<base, threads>>

\* ComputePass::new, lines 80-85: the caller starts a new pass.
ComputePass_new ==
    /\ pc = "idle"
    /\ base # BasePass_new
    /\ base' = BasePass_new
    /\ UNCHANGED <<cmd_buf, pc, frame, result, threads>>

PassTail == EndComputePass \/ ResetStatus \/ FinalFixups

(***************************************************************************)
(* The compute pass with every opcode: passes of at most MaxCmds opcodes.  *)
(***************************************************************************)
\* The caller records one more opcode into a pass of fewer than n opcodes.
CanRecord(n) == Len(base.commands) < n

RecordSetBindGroup ==
    /\ CanRecord(MaxCmds)
    /\ \E a \in {<<0, 1, <<>>>>, <<1, 2, <<0>>>>, <<2, 1, <<>>>>, <<0, 3, <<>>>>,
              <<0, 2, <<>>>>, <<U8Max + 1, 1, <<>>>>} :
          wgpu_compute_pass_set_bind_group(a[1], a[2], a[3])
RecordSetPipeline ==
    /\ CanRecord(MaxCmds)
    /\ \E pipeline_id \in ComputePipelineIds : wgpu_compute_pass_set_pipeline(pipeline_id)
RecordSetPushConstant ==
    /\ CanRecord(MaxCmds)
    /\ \E a \in {<<0, 4, <<1, 0, 0, 0>>>>, <<8, 4, <<2, 0, 0, 0>>>>, <<2, 4, <<3, 0, 0, 0>>>>} :
          wgpu_compute_pass_set_push_constant(a[1], a[2], a[3])
RecordDispatch ==
    /\ CanRecord(MaxCmds)
    /\ \E groups_x \in {1, MAX_COMPUTE_WORKGROUPS_PER_DIMENSION + 1} :
          wgpu_compute_pass_dispatch(groups_x, 1, 1)
RecordDispatchIndirect ==
    /\ CanRecord(MaxCmds)
    /\ \E a \in {<<1, 0>>, <<2, 0>>, <<5, 0>>, <<1, 8>>, <<1, AddrMod - 4>>} :
          wgpu_compute_pass_dispatch_indirect(a[1], a[2])
RecordPushDebugGroup ==
    /\ CanRecord(MaxCmds)
    /\ \E label \in {<<97>>, <<200>>} : wgpu_compute_pass_push_debug_group(label, 0)
RecordPopDebugGroup == CanRecord(MaxCmds) /\ wgpu_compute_pass_pop_debug_group
RecordInsertDebugMarker ==
    CanRecord(MaxCmds) /\ wgpu_compute_pass_insert_debug_marker(<<98>>, 0)
RecordWriteTimestamp ==
    /\ CanRecord(MaxCmds)
    /\ \E query_set_id \in QuerySetIds : wgpu_compute_pass_write_timestamp(query_set_id, 0)
RecordBeginPipelineStatisticsQuery ==
    /\ CanRecord(MaxCmds)
    /\ \E a \in {<<2, 0>>, <<1, 0>>, <<2, 1>>} :
          wgpu_compute_pass_begin_pipeline_statistics_query(a[1], a[2])
RecordEndPipelineStatisticsQuery ==
    CanRecord(MaxCmds) /\ wgpu_compute_pass_end_pipeline_statistics_query

NextPass ==
    \/ RecordSetBindGroup
    \/ RecordSetPipeline
    \/ RecordSetPushConstant
    \/ RecordDispatch
    \/ RecordDispatchIndirect
    \/ RecordPushDebugGroup
    \/ RecordPopDebugGroup
    \/ RecordInsertDebugMarker
    \/ RecordWriteTimestamp
    \/ RecordBeginPipelineStatisticsQuery
    \/ RecordEndPipelineStatisticsQuery
    \/ ComputePass_new
    \/ command_encoder_run_compute_pass
    \/ ReplaySetBindGroup
    \/ ReplaySetPipeline
    \/ ReplaySetPushConstant
    \/ ReplayDispatch
    \/ ReplayDispatchIndirect
    \/ ReplayPushDebugGroup
    \/ ReplayPopDebugGroup
    \/ ReplayInsertDebugMarker
    \/ ReplayWriteTimestamp
    \/ ReplayBeginPipelineStatisticsQuery
    \/ ReplayEndPipelineStatisticsQuery
    \/ PassTail
    \/ Collect

SpecPass == Init /\ [][NextPass]_vars

(***************************************************************************)
(* Discarded surfaces and dispatches: passes of at most MaxFixupCmds       *)
(* opcodes over a pipeline, the bind group that samples surface (1, 0, 0), *)
(* both kinds of dispatch and a failing opcode.                            *)
(***************************************************************************)
MaxFixupCmds == 3

Discard == \E s \in {<<1, 0, 0>>, <<1, 0, 1>>} : discard_surface(s)

FixupSetPipeline == CanRecord(MaxFixupCmds) /\ wgpu_compute_pass_set_pipeline(1)
FixupSetBindGroup == CanRecord(MaxFixupCmds) /\ wgpu_compute_pass_set_bind_group(0, 1, <<>>)
FixupDispatch == CanRecord(MaxFixupCmds) /\ wgpu_compute_pass_dispatch(1, 1, 1)
FixupDispatchIndirect == CanRecord(MaxFixupCmds) /\ wgpu_compute_pass_dispatch_indirect(1, 0)
FixupPopDebugGroup == CanRecord(MaxFixupCmds) /\ wgpu_compute_pass_pop_debug_group

NextFixup ==
    \/ FixupSetPipeline
    \/ FixupSetBindGroup
    \/ FixupDispatch
    \/ FixupDispatchIndirect
    \/ FixupPopDebugGroup
    \/ Discard
    \/ ComputePass_new
    \/ command_encoder_run_compute_pass
    \/ ReplaySetPipeline
    \/ ReplaySetBindGroup
    \/ ReplayDispatch
    \/ ReplayDispatchIndirect
    \/ ReplayPopDebugGroup
    \/ PassTail
    \/ Collect

SpecFixup == Init /\ [][NextFixup]_vars

(***************************************************************************)
(* One command buffer used for clears and passes: passes of at most        *)
(* MaxPoisonCmds debug opcodes, the smallest that replay with and without  *)
(* an error.                                                               *)
(***************************************************************************)
MaxPoisonCmds == 1

PoisonPushDebugGroup ==
    CanRecord(MaxPoisonCmds) /\ wgpu_compute_pass_push_debug_group(<<97>>, 0)
PoisonPopDebugGroup == CanRecord(MaxPoisonCmds) /\ wgpu_compute_pass_pop_debug_group
PoisonClearBuffer ==
    \E dst \in {1, 2}, offset \in {0, 6}, size \in {None, Some(4)} :
        command_encoder_clear_buffer(dst, offset, size, "wrapping")
PoisonClearTexture ==
    \E dst \in {1, 4} :
        command_encoder_clear_texture(
            dst, SubresourceRange("All", <<0, None>>, <<0, None>>), "wrapping")

NextPoisoned ==
    \/ PoisonPushDebugGroup
    \/ PoisonPopDebugGroup
    \/ PoisonClearBuffer
    \/ PoisonClearTexture
    \/ ComputePass_new
    \/ command_encoder_run_compute_pass
    \/ ReplayPushDebugGroup
    \/ ReplayPopDebugGroup
    \/ PassTail
    \/ Collect

SpecPoisoned == Init /\ [][NextPoisoned]_vars

(***************************************************************************)
(* Debug scopes: passes of at most MaxDebugCmds debug opcodes, with labels *)
(* that are and are not UTF-8.                                             *)
(***************************************************************************)
MaxDebugCmds == 5

DebugPushDebugGroup ==
    /\ CanRecord(MaxDebugCmds)
    /\ \E label \in {<<97>>, <<200>>} : wgpu_compute_pass_push_debug_group(label, 0)
DebugPopDebugGroup == CanRecord(MaxDebugCmds) /\ wgpu_compute_pass_pop_debug_group
DebugInsertDebugMarker ==
    CanRecord(MaxDebugCmds) /\ wgpu_compute_pass_insert_debug_marker(<<98>>, 0)

NextDebug ==
    \/ DebugPushDebugGroup
    \/ DebugPopDebugGroup
    \/ DebugInsertDebugMarker
    \/ command_encoder_run_compute_pass
    \/ ReplayPushDebugGroup
    \/ ReplayPopDebugGroup
    \/ ReplayInsertDebugMarker
    \/ PassTail
    \/ Collect

SpecDebug == Init /\ [][NextDebug]_vars

(***************************************************************************)
(* Dispatches and the barrier flush: passes of at most MaxFlushCmds        *)
(* opcodes over both pipelines and the three bind groups, with dispatches  *)
(* of both kinds, on a command buffer whose tracker earlier clears and     *)
(* passes have filled and in which a surface may be discarded.             *)
(***************************************************************************)
MaxFlushCmds == 4

FlushSetPipeline ==
    /\ CanRecord(MaxFlushCmds)
    /\ \E pipeline_id \in {1, 2} : wgpu_compute_pass_set_pipeline(pipeline_id)
FlushSetBindGroup ==
    /\ CanRecord(MaxFlushCmds)
    /\ \E a \in {<<0, 1, <<>>>>, <<1, 2, <<0>>>>, <<0, 4, <<>>>>} :
          wgpu_compute_pass_set_bind_group(a[1], a[2], a[3])
FlushDispatch ==
    /\ CanRecord(MaxFlushCmds)
    /\ \E groups_x \in {1, MAX_COMPUTE_WORKGROUPS_PER_DIMENSION + 1} :
          wgpu_compute_pass_dispatch(groups_x, 1, 1)
FlushDispatchIndirect ==
    CanRecord(MaxFlushCmds) /\ wgpu_compute_pass_dispatch_indirect(1, 0)
FlushClearBuffer == base.commands = <<>> /\ command_encoder_clear_buffer(1, 0, Some(4), "wrapping")
FlushDiscard == base.commands = <<>> /\ discard_surface(<<1, 0, 0>>)

NextFlush ==
    \/ FlushSetPipeline
    \/ FlushSetBindGroup
    \/ FlushDispatch
    \/ FlushDispatchIndirect
    \/ FlushClearBuffer
    \/ FlushDiscard
    \/ command_encoder_run_compute_pass
    \/ ReplaySetPipeline
    \/ ReplaySetBindGroup
    \/ ReplayDispatch
    \/ ReplayDispatchIndirect
    \/ PassTail
    \/ Collect

SpecFlush == Init /\ [][NextFlush]_vars

(***************************************************************************)
(* The side buffers: passes of at most MaxRoundTripCmds opcodes that carry *)
(* dynamic offsets, labels and push constant words of different lengths    *)
(* and values.                                                             *)
(***************************************************************************)
MaxRoundTripCmds == 3

RoundTripSetPipeline ==
    /\ CanRecord(MaxRoundTripCmds)
    /\ \E pipeline_id \in {1, 2} : wgpu_compute_pass_set_pipeline(pipeline_id)
RoundTripSetBindGroup ==
    /\ CanRecord(MaxRoundTripCmds)
    /\ \E a \in {<<0, 1, <<>>>>, <<1, 2, <<4>>>>, <<1, 2, <<8>>>>, <<1, 2, <<4, 8>>>>} :
          wgpu_compute_pass_set_bind_group(a[1], a[2], a[3])
RoundTripSetPushConstant ==
    /\ CanRecord(MaxRoundTripCmds)
    /\ \E a \in {<<0, 4, <<1, 0, 0, 0>>>>, <<0, 4, <<2, 1, 0, 0>>>>,
                 <<0, 8, <<3, 0, 0, 0, 4, 0, 0, 0>>>>} :
          wgpu_compute_pass_set_push_constant(a[1], a[2], a[3])
RoundTripPushDebugGroup ==
    /\ CanRecord(MaxRoundTripCmds)
    /\ \E label \in {<<97>>, <<98, 99>>} : wgpu_compute_pass_push_debug_group(label, 0)
RoundTripInsertDebugMarker ==
    /\ CanRecord(MaxRoundTripCmds)
    /\ \E label \in {<<100>>, <<>>} : wgpu_compute_pass_insert_debug_marker(label, 0)

NextRoundTrip ==
    \/ RoundTripSetPipeline
    \/ RoundTripSetBindGroup
    \/ RoundTripSetPushConstant
    \/ RoundTripPushDebugGroup
    \/ RoundTripInsertDebugMarker
    \/ command_encoder_run_compute_pass
    \/ ReplaySetPipeline
    \/ ReplaySetBindGroup
    \/ ReplaySetPushConstant
    \/ ReplayPushDebugGroup
    \/ ReplayInsertDebugMarker
    \/ PassTail
    \/ Collect

SpecRoundTrip == Init /\ [][NextRoundTrip]_vars

(***************************************************************************)
(* Adapter::parse_version (gles/adapter.rs 27-91).  A string is the        *)
(* sequence of its characters.                                             *)
(***************************************************************************)
webgl_sig == <<"W", "e", "b", "G", "L", " ">>
es_sig == <<" ", "E", "S", " ">>
glsl_es_sig == <<"G", "L", "S", "L", " ", "E", "S", " ">>

\* str::starts_with
starts_with(src, pat) == Len(src) >= Len(pat) /\ SubSeq(src, 1, Len(pat)) = pat

\* the byte positions at which pat occurs in src
Occurrences(src, pat) ==
    {i \in 0 .. (Len(src) - Len(pat)) : SubSeq(src, i + 1, i + Len(pat)) = pat}

\* str::find, str::rfind: the first and the last occurrence
find(src, pat) ==
    IF Occurrences(src, pat) = {} THEN None
    ELSE Some(CHOOSE i \in Occurrences(src, pat) : \A j \in Occurrences(src, pat) : i <= j)
rfind(src, pat) ==
    IF Occurrences(src, pat) = {} THEN None
    ELSE Some(CHOOSE i \in Occurrences(src, pat) : \A j \in Occurrences(src, pat) : i >= j)

\* &src[n..]
slice_from(src, n) == SubSeq(src, n + 1, Len(src))

DigitValue ==
    [c \in {"0", "1", "2", "3", "4", "5", "6", "7", "8", "9"} |->
        CASE c = "0" -> 0 [] c = "1" -> 1 [] c = "2" -> 2 [] c = "3" -> 3 [] c = "4" -> 4
          [] c = "5" -> 5 [] c = "6" -> 6 [] c = "7" -> 7 [] c = "8" -> 8 [] c = "9" -> 9]

RECURSIVE decimal(_)
decimal(digits) ==
    IF digits = <<>> THEN 0
    ELSE 10 * decimal(SubSeq(digits, 1, Len(digits) - 1)) + DigitValue[digits[Len(digits)]]

\* str::parse::<u8>: an optional plus sign and at least one digit, of a value
\* that fits a u8
parse_u8(s) ==
    LET digits == IF s # <<>> /\ s[1] = "+" THEN Tail(s) ELSE s
    IN IF digits = <<>> \/ \E i \in 1 .. Len(digits) : digits[i] \notin DOMAIN DigitValue
       THEN None
       ELSE IF decimal(digits) > U8Max THEN None
       ELSE Some(decimal(digits))

\* str::trim_end_matches('0')
RECURSIVE trim_end_zeros(_)
trim_end_zeros(s) ==
    IF s # <<>> /\ s[Len(s)] = "0" THEN trim_end_zeros(SubSeq(s, 1, Len(s) - 1)) ELSE s

\* version.split('.'): the pieces between the dots
RECURSIVE split_dots(_)
split_dots(version) ==
    LET dot == find(version, <<".">>)
    IN IF dot = None THEN <<version>>
       ELSE <<SubSeq(version, 1, unwrap(dot))>>
                \o split_dots(slice_from(version, unwrap(dot) + 1))

\* lines 32-47: the text behind the last "WebGL " of a WebGL string, or
\* behind the last " ES " of another one
strip_signature(src) ==
    IF starts_with(src, webgl_sig)
    THEN Some(slice_from(src, unwrap(rfind(src, webgl_sig)) + Len(webgl_sig)))
    ELSE IF rfind(src, es_sig) = None THEN None
    ELSE Some(slice_from(src, unwrap(rfind(src, es_sig)) + Len(es_sig)))

\* lines 49-56
strip_glsl(src) ==
    IF find(src, glsl_es_sig) = None THEN src
    ELSE slice_from(src, unwrap(find(src, glsl_es_sig)) + Len(glsl_es_sig))

\* lines 58-61
version_of(src) ==
    IF find(src, <<" ">>) = None THEN src ELSE SubSeq(src, 1, unwrap(find(src, <<" ">>)))

\* lines 66-74
parse_major(it) == parse_u8(it[1])
parse_minor(it) ==
    IF Len(it) < 2 THEN None
    ELSE IF starts_with(it[2], <<"0">>) THEN parse_u8(<<"0">>)
    ELSE parse_u8(trim_end_zeros(it[2]))

\* major + 1 on a u8
major_overflows(major) == major + 1 > U8Max

parse_version(src, build) ==
    LET is_webgl == starts_with(src, webgl_sig)
        stripped == strip_signature(src)
    IN IF stripped = None THEN [ret |-> "Err", err |-> "InstanceError"]
       ELSE
       LET is_glsl == find(unwrap(stripped), glsl_es_sig) # None
           version == version_of(strip_glsl(unwrap(stripped)))
           it == split_dots(version)
           major == parse_major(it)
           minor == parse_minor(it)
       IN IF major = None \/ minor = None THEN [ret |-> "Err", err |-> "InstanceError"]
          ELSE IF is_webgl /\ ~is_glsl
          THEN IF major_overflows(unwrap(major)) /\ build = "checked"
               THEN [ret |-> "panic"]
               ELSE [ret |-> "Ok",
                     value |-> <<(unwrap(major) + 1) % (U8Max + 1), unwrap(minor)>>]
          ELSE [ret |-> "Ok", value |-> <<unwrap(major), unwrap(minor)>>]

(***************************************************************************)
(* Version strings put together from a signature, a major number, a dot,   *)
(* a minor number and vendor information.                                  *)
(***************************************************************************)
Signatures ==
    {<<>>, webgl_sig, <<"O", "p", "e", "n", "G", "L">> \o es_sig, glsl_es_sig,
     webgl_sig \o glsl_es_sig,
     <<"O", "p", "e", "n", "G", "L">> \o es_sig \o glsl_es_sig,
     webgl_sig \o glsl_es_sig \o <<"1", ".", "0", " ">> \o webgl_sig}
Majors == {<<>>, <<"1">>, <<"2">>, <<"3">>, <<"2", "5", "5">>, <<"2", "5", "6">>, <<"h">>}
Dots == {<<>>, <<".">>}
Minors == {<<>>, <<"0">>, <<"1">>, <<"2", "0">>, <<"0", "0">>, <<"0", "5">>, <<"x">>}
VendorInfos ==
    {<<>>, <<".", "3">>, <<" ", "N", "e", "x", "u", "s">>,
     <<" ", "(", "O", "p", "e", "n", "G", "L">> \o es_sig \o <<"3", ".", "0", ")">>}

VersionStrings ==
    {sig \o major \o dot \o minor \o info :
        sig \in Signatures, major \in Majors, dot \in Dots, minor \in Minors,
        info \in VendorInfos}

ParseVersion ==
    /\ pc = "idle"
    /\ \E src \in VersionStrings, build \in Builds :
          LET call == parse_version(src, build) @@ [call |-> "parse_version", args |-> src]
          IN /\ result' = call
             /\ pc' = AfterCall(call)
    /\ UNCHANGED <<base, cmd_buf, frame, threads>>

NextVersion == ParseVersion \/ Collect

SpecVersion == Init /\ [][NextVersion]_vars

(***************************************************************************)
(* Clears behind a pass: a pass of at most MaxTransitionCmds opcodes that  *)
(* leaves buffer 1 and surface (1, 0, 0) in a shader usage in the command  *)
(* buffer's tracker, and clears of that buffer and that texture.           *)
(***************************************************************************)
MaxTransitionCmds == 3

TransitionSetPipeline ==
    CanRecord(MaxTransitionCmds) /\ wgpu_compute_pass_set_pipeline(1)
TransitionSetBindGroup ==
    CanRecord(MaxTransitionCmds) /\ wgpu_compute_pass_set_bind_group(0, 1, <<>>)
TransitionDispatch ==
    CanRecord(MaxTransitionCmds) /\ wgpu_compute_pass_dispatch(1, 1, 1)
TransitionClearBuffer ==
    \E dst \in {1, 2}, offset \in {0, 6, 16}, size \in {None, Some(4), Some(32)} :
        command_encoder_clear_buffer(dst, offset, size, "wrapping")
TransitionClearTexture ==
    \E dst \in {1, 4}, mips \in {<<0, None>>, <<1, Some(1)>>, <<2, Some(1)>>, <<2, None>>} :
        command_encoder_clear_texture(
            dst, SubresourceRange("All", mips, <<0, None>>), "wrapping")

NextTransition ==
    \/ TransitionSetPipeline
    \/ TransitionSetBindGroup
    \/ TransitionDispatch
    \/ TransitionClearBuffer
    \/ TransitionClearTexture
    \/ command_encoder_run_compute_pass
    \/ ReplaySetPipeline
    \/ ReplaySetBindGroup
    \/ ReplayDispatch
    \/ PassTail
    \/ Collect

SpecTransition == Init /\ [][NextTransition]_vars

(***************************************************************************)
(* Dispatches in every state of readiness: passes of at most MaxReadyCmds  *)
(* opcodes over the three pipelines and the bind groups of both layouts,   *)
(* with workgroup counts at, below and above the limit in each dimension   *)
(* and indirect dispatches at offsets up to the end of the u64 range, on a *)
(* command buffer in which buffer 1 may have been cleared before.          *)
(***************************************************************************)
MaxReadyCmds == 3

ReadySetPipeline ==
    /\ CanRecord(MaxReadyCmds)
    /\ \E pipeline_id \in {1, 2, 3} : wgpu_compute_pass_set_pipeline(pipeline_id)
ReadySetBindGroup ==
    /\ CanRecord(MaxReadyCmds)
    /\ \E a \in {<<0, 1, <<>>>>, <<1, 2, <<0>>>>, <<MAX_BIND_GROUPS_LIMIT, 2, <<0>>>>} :
          wgpu_compute_pass_set_bind_group(a[1], a[2], a[3])
ReadyDispatch ==
    /\ CanRecord(MaxReadyCmds)
    /\ \E groups \in {<<0, 0, 0>>,
                      <<MAX_COMPUTE_WORKGROUPS_PER_DIMENSION,
                        MAX_COMPUTE_WORKGROUPS_PER_DIMENSION,
                        MAX_COMPUTE_WORKGROUPS_PER_DIMENSION>>,
                      <<MAX_COMPUTE_WORKGROUPS_PER_DIMENSION + 1, 0, 0>>,
                      <<0, MAX_COMPUTE_WORKGROUPS_PER_DIMENSION + 1, 0>>,
                      <<0, 0, MAX_COMPUTE_WORKGROUPS_PER_DIMENSION + 1>>} :
          wgpu_compute_pass_dispatch(groups[1], groups[2], groups[3])
ReadyDispatchIndirect ==
    /\ CanRecord(MaxReadyCmds)
    /\ \E a \in {<<1, 4>>, <<1, 8>>, <<1, AddrMod - 4>>, <<2, 0>>} :
          wgpu_compute_pass_dispatch_indirect(a[1], a[2])
ReadyClearBuffer ==
    base.commands = <<>> /\ command_encoder_clear_buffer(1, 0, Some(4), "wrapping")

NextReady ==
    \/ ReadySetPipeline
    \/ ReadySetBindGroup
    \/ ReadyDispatch
    \/ ReadyDispatchIndirect
    \/ ReadyClearBuffer
    \/ command_encoder_run_compute_pass
    \/ ReplaySetPipeline
    \/ ReplaySetBindGroup
    \/ ReplayDispatch
    \/ ReplayDispatchIndirect
    \/ PassTail
    \/ Collect

SpecReady == Init /\ [][NextReady]_vars

(***************************************************************************)
(* Workgroup counts: passes of at most MaxGroupsCmds opcodes over the      *)
(* pipelines of both layouts and the bind groups that read and write       *)
(* buffer 1, with dispatches whose counts are 0, the limit and one more    *)
(* than the limit in each dimension, on a command buffer in which buffer 1 *)
(* may have been cleared before.                                           *)
(***************************************************************************)
MaxGroupsCmds == 4

GroupsSetPipeline ==
    /\ CanRecord(MaxGroupsCmds)
    /\ \E pipeline_id \in {1, 2} : wgpu_compute_pass_set_pipeline(pipeline_id)
GroupsSetBindGroup ==
    /\ CanRecord(MaxGroupsCmds)
    /\ \E a \in {<<0, 1, <<>>>>, <<1, 2, <<0>>>>} :
          wgpu_compute_pass_set_bind_group(a[1], a[2], a[3])
GroupsDispatch ==
    /\ CanRecord(MaxGroupsCmds)
    /\ \E groups \in {<<0, 0, 0>>,
                      <<MAX_COMPUTE_WORKGROUPS_PER_DIMENSION,
                        MAX_COMPUTE_WORKGROUPS_PER_DIMENSION,
                        MAX_COMPUTE_WORKGROUPS_PER_DIMENSION>>,
                      <<MAX_COMPUTE_WORKGROUPS_PER_DIMENSION + 1, 0, 0>>,
                      <<0, MAX_COMPUTE_WORKGROUPS_PER_DIMENSION + 1, 0>>,
                      <<0, 0, MAX_COMPUTE_WORKGROUPS_PER_DIMENSION + 1>>} :
          wgpu_compute_pass_dispatch(groups[1], groups[2], groups[3])
GroupsClearBuffer ==
    base.commands = <<>> /\ command_encoder_clear_buffer(1, 0, Some(4), "wrapping")

NextGroups ==
    \/ GroupsSetPipeline
    \/ GroupsSetBindGroup
    \/ GroupsDispatch
    \/ GroupsClearBuffer
    \/ command_encoder_run_compute_pass
    \/ ReplaySetPipeline
    \/ ReplaySetBindGroup
    \/ ReplayDispatch
    \/ PassTail
    \/ Collect

SpecGroups == Init /\ [][NextGroups]_vars

(***************************************************************************)
(* Threads entering clear_buffer, clear_texture and run_compute_pass and   *)
(* taking the registry locks.  A registry is a RwLock: a writer excludes   *)
(* everyone, readers exclude writers.                                      *)
(***************************************************************************)
InEntryPoint(t) == threads[t].op # "none"

\* the guards thread t holds
HeldBy(t) ==
    {LocksOf(threads[t].op)[i] : i \in
        {k \in 1 .. threads[t].held : LocksOf(threads[t].op)[k].kept}}

\* the lock thread t asks for next, if any
Wanted(t) ==
    IF InEntryPoint(t) /\ threads[t].held < Len(LocksOf(threads[t].op))
    THEN Some(LocksOf(threads[t].op)[threads[t].held + 1])
    ELSE None

\* RwLock::read / RwLock::write can return
CanLock(t) ==
    /\ Wanted(t) # None
    /\ LET want == unwrap(Wanted(t))
       IN \A u \in Threads : \A g \in HeldBy(u) :
              g.registry = want.registry =>
                  /\ g.mode = "read"
                  /\ want.mode = "read"

\* a fair RwLock also keeps new readers out while a writer waits
CanLockFairly(t) ==
    /\ CanLock(t)
    /\ unwrap(Wanted(t)).mode = "read" =>
           \A u \in Threads \ {t} :
               Wanted(u) # None =>
                   ~(/\ unwrap(Wanted(u)).registry = unwrap(Wanted(t)).registry
                     /\ unwrap(Wanted(u)).mode = "write")

\* the places an entry point returns from: after get_encoder_mut failed, right
\* behind hub.command_buffers.write, and after its body
ReturnPoints(op) ==
    {Len(LocksOf(op))}
        \cup {i \in 1 .. Len(LocksOf(op)) :
                 LocksOf(op)[i].registry = "command_buffers"}

\* Token::root
Token_root(t, op) ==
    /\ ~InEntryPoint(t)
    /\ threads' = [threads EXCEPT ![t] = [op |-> op, held |-> 0]]
    /\ UNCHANGED <<base, cmd_buf, pc, frame, result>>

\* Registry::read, Registry::write
Acquire(t) ==
    /\ CanLock(t)
    /\ threads' = [threads EXCEPT ![t].held = @ + 1]
    /\ UNCHANGED <<base, cmd_buf, pc, frame, result>>

\* the guards go out of scope
DropGuards(t) ==
    /\ InEntryPoint(t)
    /\ threads[t].held \in ReturnPoints(threads[t].op)
    /\ threads' = [threads EXCEPT ![t] = NoThread]
    /\ UNCHANGED <<base, cmd_buf, pc, frame, result>>

LocksEnter == \E t \in Threads, op \in EntryPoints : Token_root(t, op)

LocksAcquire == \E t \in Threads : Acquire(t)

LocksReturn == \E t \in Threads : DropGuards(t)

NextLocks == LocksEnter \/ LocksAcquire \/ LocksReturn

SpecLocks == Init /\ [][NextLocks]_vars

(***************************************************************************)
(* Properties of run_compute_pass.                                         *)
(***************************************************************************)
RunReturned == pc = "returned" /\ result.call = "run_compute_pass"

\* The run returned the error of an opcode (not the error of the encoder
\* lookup, which is returned before the replay begins).
RunFailedAtOpcode == RunReturned /\ result.ret = "Err" /\ frame.ip > 0

\* C1: once run_compute_pass has resolved the encoder, the status is Error
\* at every point of the replay, from before the first opcode until the
\* native pass is ended; when the call returns, the status is Recording if
\* and only if it returns Ok, which it does only with every opcode of the
\* stream replayed; when it returns the error of an opcode, the status is
\* Error.
C1_PoisonLatch ==
    /\ pc \in {"replay", "ended"} => cmd_buf.status = "Error"
    /\ RunReturned =>
        /\ cmd_buf.status = "Recording" <=> result.ret = "Ok"
        /\ result.ret = "Ok" => frame.ip = Len(base.commands) + 1
    /\ RunFailedAtOpcode => cmd_buf.status = "Error"

\* A run has returned the error of its second opcode, after the first one
\* replayed, and has left the status Error.
C1_Witness ==
    /\ RunFailedAtOpcode
    /\ frame.ip = 2
    /\ cmd_buf.status = "Error"

\* C3: when the opcode at position k fails, the call returns at once: the
\* replay position stays k, and every native call of the run was emitted for
\* an opcode at a position of at most k.
C3_AbortOnFirstFailure ==
    (result.call = "run_compute_pass" /\ result.ret = "Err" /\ frame.ip > 0) =>
        /\ pc = "returned"
        /\ frame.ip = result.at
        /\ \A i \in 1..Len(cmd_buf.raw) : cmd_buf.raw[i].at <= result.at

\* The first opcode of a two-opcode stream has failed: the run has returned
\* with the second opcode unprocessed and only begin_compute_pass emitted.
C3_Witness ==
    /\ RunFailedAtOpcode
    /\ result.at = 1
    /\ Len(base.commands) = 2
    /\ cmd_buf.raw = <<[call |-> "begin_compute_pass", at |-> 0]>>

(***************************************************************************)
(* Properties of the discard fixups.                                       *)
(***************************************************************************)
\* The native calls a step emits.
Emitted == SubSeq(cmd_buf'.raw, Len(cmd_buf.raw) + 1, Len(cmd_buf'.raw))

IsDispatchCall(c) == c.call \in {"dispatch", "dispatch_indirect"}

\* C4: no native dispatch and no native dispatch_indirect is emitted while a
\* discard fixup registered by an earlier SetBindGroup of the pass is still
\* pending: the arm that emits the dispatch has drained the pending list.
C4_FixupsDrainedBeforeDispatch ==
    [][(pc = "replay" /\ pc' = "replay" /\ SelectSeq(Emitted, IsDispatchCall) # <<>>)
            => frame'.pending_discard_init_fixups = <<>>]_vars

\* C5: a discard fixup that was registered during the replay is
\* materialized before run_compute_pass returns: no fixup is pending when
\* the call has returned.
C5_PromisedClearOccurs ==
    (RunReturned /\ frame.ip > 0) => frame.pending_discard_init_fixups = <<>>

(***************************************************************************)
(* Properties of a poisoned command buffer.                                *)
(***************************************************************************)
Poisoned == pc \in {"idle", "returned"} /\ cmd_buf.status = "Error"

IsEncoderError(r) ==
    /\ r.ret = "Err"
    /\ \/ r.call \in {"clear_buffer", "clear_texture"} /\ r.err.kind = "InvalidCommandEncoder"
       \/ r.call = "run_compute_pass" /\ r.err.scope.scope = "Pass"
          /\ r.err.inner.kind = "InvalidCommandEncoder"

\* C2: once a run_compute_pass has failed on the command buffer and left its
\* status Error, every step keeps the status Error and emits no native call,
\* and every call that returns (run_compute_pass, clear_buffer,
\* clear_texture) returns the error of the encoder lookup.
C2_PoisonedStaysPoisoned ==
    [][Poisoned =>
        /\ Poisoned'
        /\ Emitted = <<>>
        /\ (pc = "idle" /\ pc' = "returned") => IsEncoderError(result')]_vars

\* A clear_buffer on a command buffer that an earlier failed run left
\* poisoned has returned.
C2_Witness ==
    /\ pc = "returned"
    /\ cmd_buf.status = "Error"
    /\ result.call = "clear_buffer"
    /\ cmd_buf.raw = <<>>

(***************************************************************************)
(* Properties of the clear calls.  A clear is looked at as the step from   *)
(* the idle caller to the end of the call.                                 *)
(***************************************************************************)
\* The step is a call of clear_buffer, respectively clear_texture, on an
\* encoder that resolves, on a device with the clear capability.
ClearBufferStep ==
    /\ pc = "idle"
    /\ result'.call = "clear_buffer"
    /\ cmd_buf.status = "Recording"
    /\ cmd_buf.support_clear_buffer_texture
ClearTextureStep ==
    /\ pc = "idle"
    /\ result'.call = "clear_texture"
    /\ cmd_buf.status = "Recording"
    /\ cmd_buf.support_clear_buffer_texture

\* dst is a buffer of the registry that has not been destroyed.
LiveBuffer(dst) == dst \in ValidBufferIds /\ buffer_guard[dst].raw # None

\* The call is on a live buffer that has, respectively lacks, COPY_DST.
OnCopyDstBuffer(args) == LiveBuffer(args.dst) /\ "COPY_DST" \in buffer_guard[args.dst].usage
OnOtherBuffer(args) == LiveBuffer(args.dst) /\ "COPY_DST" \notin buffer_guard[args.dst].usage

IsZeroFill(c) == c.call = "clear_buffer"

Added(after, before) == SubSeq(after, Len(before) + 1, Len(after))

\* C6: with the encoder recording and the clear capability, clear_buffer on
\* a live buffer with COPY_DST, with an offset and a given size that are
\* multiples of COPY_BUFFER_ALIGNMENT and offset + size <= the buffer's
\* size, returns Ok, records one ImplicitlyInitialized action for
\* offset..offset+size and emits exactly one native zero-fill, for
\* offset..offset+size.
C6_ClearBufferSucceeds ==
    [][( /\ ClearBufferStep
         /\ OnCopyDstBuffer(result'.args)
         /\ result'.args.size # None
         /\ result'.args.offset % COPY_BUFFER_ALIGNMENT = 0
         /\ unwrap(result'.args.size) % COPY_BUFFER_ALIGNMENT = 0
         /\ result'.args.offset + unwrap(result'.args.size)
                <= buffer_guard[result'.args.dst].size )
        => LET args == result'.args
               range == Range(args.offset, args.offset + unwrap(args.size))
           IN /\ pc' = "returned"
              /\ result'.ret = "Ok"
              /\ Added(cmd_buf'.buffer_memory_init_actions, cmd_buf.buffer_memory_init_actions)
                    = <<[id |-> args.dst, range |-> range, kind |-> "ImplicitlyInitialized"]>>
              /\ SelectSeq(Emitted, IsZeroFill)
                    = <<[call |-> "clear_buffer", buffer |-> unwrap(buffer_guard[args.dst].raw),
                         range |-> range]>>]_vars

\* A clear of bytes 4..8 of buffer 4 has returned Ok with its zero-fill
\* emitted and its init action recorded.
C6_Witness ==
    /\ pc = "returned"
    /\ result.call = "clear_buffer"
    /\ result.ret = "Ok"
    /\ result.args = [dst |-> 4, offset |-> 4, size |-> Some(4)]
    /\ cmd_buf.raw = <<[call |-> "clear_buffer", buffer |-> "raw_buffer_4", range |-> Range(4, 8)]>>
    /\ Len(cmd_buf.buffer_memory_init_actions) = 1

\* C7: clear_buffer with the size omitted and the offset equal to the
\* buffer's size returns Ok and changes nothing: the usage tracker state of
\* the buffer is the one before the call, no native call is emitted and no
\* init action is recorded.
C7_EmptyClearIsNoOp ==
    [][( /\ ClearBufferStep
         /\ OnCopyDstBuffer(result'.args)
         /\ result'.args.size = None
         /\ result'.args.offset = buffer_guard[result'.args.dst].size )
        => /\ pc' = "returned"
           /\ result'.ret = "Ok"
           /\ cmd_buf'.trackers.buffers[result'.args.dst]
                = cmd_buf.trackers.buffers[result'.args.dst]
           /\ Emitted = <<>>
           /\ cmd_buf'.buffer_memory_init_actions = cmd_buf.buffer_memory_init_actions]_vars

C9_ClearBufferOverrun ==
    [][( /\ ClearBufferStep
         /\ OnCopyDstBuffer(result'.args)
         /\ result'.args.size # None
         /\ result'.args.offset % COPY_BUFFER_ALIGNMENT = 0
         /\ unwrap(result'.args.size) % COPY_BUFFER_ALIGNMENT = 0
         /\ result'.args.offset + unwrap(result'.args.size)
                > buffer_guard[result'.args.dst].size )
        => LET args == result'.args
           IN /\ pc' = "returned"
              /\ result'.ret = "Err"
              /\ result'.err = [kind |-> "BufferOverrun", start_offset |-> args.offset,
                                end_offset |-> args.offset + unwrap(args.size),
                                buffer_size |-> buffer_guard[args.dst].size]
              /\ Emitted = <<>>]_vars

\* The texture request passes every check that comes before the usage
\* check: aspect, format, sample count, mip range and layer range.
RequestFits(dst, r) ==
    LET texture == texture_guard[dst]
        format_desc == format_describe(texture.desc.format)
    IN /\ format_desc.aspects \cap aspects_from(r.aspect) # {}
       /\ format_desc.sample_type # "Depth"
       /\ texture.desc.sample_count = 1
       /\ ~subresource_end_overflows(r.base_mip_level, r.mip_level_count)
       /\ ~subresource_end_overflows(r.base_array_layer, r.array_layer_count)
       /\ ~range_is_outside(texture.full_range.levels, r.base_mip_level,
                            subresource_end(r.base_mip_level, r.mip_level_count,
                                            texture.full_range.levels))
       /\ ~range_is_outside(texture.full_range.layers, r.base_array_layer,
                            subresource_end(r.base_array_layer, r.array_layer_count,
                                            texture.full_range.layers))

\* C10: with the encoder recording and the clear capability, clear_buffer on
\* a live buffer without COPY_DST, and clear_texture with a request that
\* fits a live texture without COPY_DST, return MissingCopyDstUsageFlag
\* naming the buffer, respectively the texture, and emit no native call.
C10_MissingCopyDst ==
    [][/\ (ClearBufferStep /\ OnOtherBuffer(result'.args))
            => /\ pc' = "returned"
               /\ result'.ret = "Err"
               /\ result'.err = [kind |-> "MissingCopyDstUsageFlag",
                                 buffer |-> Some(result'.args.dst), texture |-> None]
               /\ Emitted = <<>>
       /\ ( /\ ClearTextureStep
            /\ result'.args.dst \in ValidTextureIds
            /\ texture_guard[result'.args.dst].raw # None
            /\ "COPY_DST" \notin texture_guard[result'.args.dst].desc.usage
            /\ RequestFits(result'.args.dst, result'.args.subresource_range) )
            => /\ pc' = "returned"
               /\ result'.ret = "Err"
               /\ result'.err = [kind |-> "MissingCopyDstUsageFlag",
                                 buffer |-> None, texture |-> Some(result'.args.dst)]
               /\ Emitted = <<>>]_vars

\* A clear_texture on texture 4, which lacks COPY_DST, has returned
\* MissingCopyDstUsageFlag naming texture 4, with nothing emitted.
C10_Witness ==
    /\ pc = "returned"
    /\ result.call = "clear_texture"
    /\ result.ret = "Err"
    /\ result.err = [kind |-> "MissingCopyDstUsageFlag", buffer |-> None, texture |-> Some(4)]
    /\ cmd_buf.raw = <<>>

(***************************************************************************)
(* clear_texture: formats, sample counts and ranges.                       *)
(***************************************************************************)
\* The texture of the registry has a format with the depth sample type, or
\* more than one sample.
DepthOrMultisampled(dst) ==
    /\ dst \in ValidTextureIds
    /\ \/ format_describe(texture_guard[dst].desc.format).sample_type = "Depth"
       \/ texture_guard[dst].desc.sample_count > 1

\* C11: clear_texture on a texture whose format has the depth sample type,
\* or with more than one sample, returns an error whatever the requested
\* aspect, mip range and layer range are (and whatever the capability):
\* the usage tracker is as before the call and no native call is emitted.
\* When the encoder has the capability and the requested aspect is one the
\* format has, the error is DepthStencilFormatNotSupported for the depth
\* format and MultisampledTextureUnsupported for the multisampled texture.
C11_DepthAndMultisampledRejected ==
    [][( /\ pc = "idle"
         /\ result'.call = "clear_texture"
         /\ DepthOrMultisampled(result'.args.dst) )
        => LET dst == result'.args.dst
               format_desc == format_describe(texture_guard[dst].desc.format)
           IN /\ pc' = "returned"
              /\ result'.ret = "Err"
              /\ cmd_buf'.trackers = cmd_buf.trackers
              /\ Emitted = <<>>
              /\ ( /\ ClearTextureStep
                   /\ format_desc.aspects
                        \cap aspects_from(result'.args.subresource_range.aspect) # {} )
                    => result'.err.kind =
                          IF format_desc.sample_type = "Depth"
                          THEN "DepthStencilFormatNotSupported"
                          ELSE "MultisampledTextureUnsupported"]_vars

\* A clear_texture of the first mip and layer of the multisampled texture 3
\* has returned MultisampledTextureUnsupported with nothing emitted.
C11_Witness ==
    /\ pc = "returned"
    /\ result.call = "clear_texture"
    /\ result.ret = "Err"
    /\ result.err.kind = "MultisampledTextureUnsupported"
    /\ result.args.dst = 3
    /\ result.args.subresource_range = SubresourceRange("All", <<0, Some(1)>>, <<0, Some(1)>>)
    /\ cmd_buf.raw = <<>>

\* The request passes the checks that come before the range checks: the
\* texture is in the registry, the aspect is one the format has, the format
\* is not a depth format and the texture is not multisampled.
ReachesRangeChecks(args) ==
    /\ args.dst \in ValidTextureIds
    /\ format_describe(texture_guard[args.dst].desc.format).aspects
            \cap aspects_from(args.subresource_range.aspect) # {}
    /\ ~DepthOrMultisampled(args.dst)

\* The range of base_index and count, as numbers, is not inside full; an
\* omitted count stands for the range from base_index to the end of full.
NotContained(full, base_index, count) ==
    \/ base_index < full.start
    \/ IF count # None THEN base_index + unwrap(count) > full.end
       ELSE base_index > full.end

\* C12: with the encoder recording and the capability, clear_texture with
\* a mip range that is not contained in the texture's mip range returns
\* InvalidTextureLevelRange, and with a contained mip range and a layer
\* range that is not contained returns InvalidTextureLayerRange; the error
\* carries the texture's range and the requested base and count, and no
\* native call is emitted.  Every base and count is included, an omitted
\* count with a base beyond the texture's range too.
C12_RangeOutsideTexture ==
    [][(ClearTextureStep /\ ReachesRangeChecks(result'.args))
        => LET r == result'.args.subresource_range
               full == texture_guard[result'.args.dst].full_range
           IN /\ NotContained(full.levels, r.base_mip_level, r.mip_level_count)
                    => /\ pc' = "returned"
                       /\ result'.ret = "Err"
                       /\ result'.err =
                            [kind |-> "InvalidTextureLevelRange",
                             texture_level_range |-> full.levels,
                             subresource_base_mip_level |-> r.base_mip_level,
                             subresource_mip_level_count |-> r.mip_level_count]
                       /\ Emitted = <<>>
              /\ ( /\ ~NotContained(full.levels, r.base_mip_level, r.mip_level_count)
                   /\ NotContained(full.layers, r.base_array_layer, r.array_layer_count) )
                    => /\ pc' = "returned"
                       /\ result'.ret = "Err"
                       /\ result'.err =
                            [kind |-> "InvalidTextureLayerRange",
                             texture_layer_range |-> full.layers,
                             subresource_base_array_layer |-> r.base_array_layer,
                             subresource_array_layer_count |-> r.array_layer_count]
                       /\ Emitted = <<>>]_vars

\* C13: a clear_texture that returns Ok for a range with at least one mip
\* and one layer has recorded, for the command buffer, an init action of
\* kind ImplicitlyInitialized for the texture and exactly that mip and
\* layer range, as clear_buffer does for its byte range.
C13_ClearTextureMarksInitialized ==
    [][( /\ ClearTextureStep
         /\ result'.ret = "Ok"
         /\ ReachesRangeChecks(result'.args)
         /\ ~NotContained(texture_guard[result'.args.dst].full_range.levels,
                          result'.args.subresource_range.base_mip_level,
                          result'.args.subresource_range.mip_level_count)
         /\ ~NotContained(texture_guard[result'.args.dst].full_range.layers,
                          result'.args.subresource_range.base_array_layer,
                          result'.args.subresource_range.array_layer_count) )
        => LET r == result'.args.subresource_range
               full == texture_guard[result'.args.dst].full_range
               added == Added(cmd_buf'.texture_memory_actions.init_actions,
                              cmd_buf.texture_memory_actions.init_actions)
               levels == Range(r.base_mip_level,
                               subresource_end(r.base_mip_level, r.mip_level_count,
                                               full.levels))
               layers == Range(r.base_array_layer,
                               subresource_end(r.base_array_layer, r.array_layer_count,
                                               full.layers))
           IN (levels.start < levels.end /\ layers.start < layers.end)
                => \E i \in 1..Len(added) :
                      added[i] = [id |-> result'.args.dst,
                                  range |-> [mip_range |-> levels, layer_range |-> layers],
                                  kind |-> "ImplicitlyInitialized"]]_vars

(***************************************************************************)
(* Region synthesis.                                                       *)
(***************************************************************************)
CollectReturned == result.call = "collect_zero_buffer_copies" /\ result.ret = "Ok"

\* value rounded up to a multiple of block
RoundUp(value, block) == ((value + block - 1) \div block) * block

\* The regions of `regions` for one surface, in the order of emission.
RegionsOf(regions, mip_level, array_layer, z) ==
    SelectSeq(regions, LAMBDA r : /\ r.texture_base.mip_level = mip_level
                                  /\ r.texture_base.array_layer = array_layer
                                  /\ r.texture_base.origin.z = z)

\* The sum of the heights of the first n regions of rs.
RECURSIVE HeightsBefore(_, _)
HeightsBefore(rs, n) == IF n = 0 THEN 0 ELSE HeightsBefore(rs, n - 1) + rs[n].size.height

\* The depth slices of a mip level: those of the mip for a 3D texture, one
\* otherwise.
SlicesOf(desc, mip_level) ==
    IF desc.dimension = "D3" THEN 0..(mip_level_size(desc, mip_level).depth_or_array_layers - 1)
    ELSE {0}

\* The scratch capacity in rows of bytes_per_row bytes, rounded down to a
\* multiple of the block height.
RowsThatFit(bytes_per_row, block_height) ==
    ((ZERO_BUFFER_SIZE \div bytes_per_row) \div block_height) * block_height

\* C14: when the synthesis returns, every region belongs to a requested mip
\* level, layer and depth slice, and for each of these surfaces the regions
\* have x-origin 0, the block-aligned width of the mip, depth 1, a height
\* between 1 and the rows that fit the scratch buffer, and a y-origin equal
\* to the sum of the heights emitted before for the surface: they are
\* pairwise disjoint and their heights sum to the block-aligned height of
\* the mip.
C14_RegionsTileEachSurface ==
    CollectReturned =>
        LET args == result.args
            regions == result.out_copy_regions
            block == format_describe(args.desc.format).block_dimensions
        IN /\ \A i \in 1..Len(regions) :
                /\ regions[i].texture_base.mip_level \in RangeSet(args.mip_range)
                /\ regions[i].texture_base.array_layer \in RangeSet(args.layer_range)
                /\ regions[i].texture_base.origin.z
                        \in SlicesOf(args.desc, regions[i].texture_base.mip_level)
           /\ \A mip_level \in RangeSet(args.mip_range),
                 array_layer \in RangeSet(args.layer_range) :
                \A z \in SlicesOf(args.desc, mip_level) :
                    LET rs == RegionsOf(regions, mip_level, array_layer, z)
                        mip == mip_level_size(args.desc, mip_level)
                    IN /\ \A i \in 1..Len(rs) :
                            /\ rs[i].texture_base.origin.x = 0
                            /\ rs[i].size.width = RoundUp(mip.width, block[1])
                            /\ rs[i].size.depth = 1
                            /\ rs[i].size.height >= 1
                            /\ rs[i].size.height
                                    <= RowsThatFit(rs[i].buffer_layout.bytes_per_row, block[2])
                            /\ rs[i].texture_base.origin.y = HeightsBefore(rs, i - 1)
                            /\ \A j \in 1..(i - 1) :
                                    rs[j].texture_base.origin.y + rs[j].size.height
                                        <= rs[i].texture_base.origin.y
                       /\ HeightsBefore(rs, Len(rs)) = RoundUp(mip.height, block[2])

\* The synthesis has returned for both mips and both layers of a 4x8
\* texture whose mip 0 takes four regions of two rows per layer.
C14_Witness ==
    /\ CollectReturned
    /\ result.args.desc.format = "Rgba8Unorm"
    /\ result.args.desc.size = [width |-> 4, height |-> 8, depth_or_array_layers |-> 2]
    /\ result.args.desc.dimension = "D2"
    /\ result.args.buffer_copy_pitch = BUFFER_COPY_PITCH
    /\ result.args.mip_range = Range(0, 2)
    /\ result.args.layer_range = Range(0, 2)
    /\ Len(RegionsOf(result.out_copy_regions, 0, 1, 0)) = 4

\* C15: the synthesis aborts when, for a requested mip level, the rows that
\* fit the scratch buffer (capacity divided by bytes-per-row, rounded down
\* to a multiple of the block height) are 0, and a synthesis that returns
\* has emitted no region of height 0.
C15_NoZeroRowRegion ==
    result.call = "collect_zero_buffer_copies" =>
        LET args == result.args
            block == format_describe(args.desc.format).block_dimensions
        IN /\ (\E mip_level \in RangeSet(args.mip_range) :
                    RowsThatFit(bytes_per_row_of(args.desc, args.buffer_copy_pitch, mip_level),
                                block[2]) = 0)
                => (result.ret = "panic" /\ pc = "panicked")
           /\ \A i \in 1..Len(result.out_copy_regions) :
                    result.out_copy_regions[i].size.height > 0

\* The synthesis has aborted on a block-compressed texture 8 texels wide:
\* two rows fit the scratch buffer, which is less than one row of blocks.
C15_Witness ==
    /\ pc = "panicked"
    /\ result.call = "collect_zero_buffer_copies"
    /\ result.args.desc.format = "Bc1RgbaUnorm"
    /\ result.args.desc.size.width = 8
    /\ result.args.buffer_copy_pitch = BUFFER_COPY_PITCH
    /\ result.args.mip_range = Range(0, 1)

(***************************************************************************)
(* Dispatches and the barrier flush.                                       *)
(***************************************************************************)
\* No SetPipeline is among the opcodes before position k.
NoPipelineBefore(k) == \A i \in 1..(k - 1) : base.commands[i].op # "SetPipeline"

\* C16: a Dispatch replayed with no SetPipeline before it in the pass
\* fails with the dispatch error MissingPipeline: the call returns that
\* error, the step emits no native dispatch, and the command buffer is left
\* with the status Error.
C16_DispatchWithoutPipeline ==
    [][(Fetch("Dispatch") /\ NoPipelineBefore(frame.ip))
        => /\ pc' = "returned"
           /\ result'.ret = "Err"
           /\ result'.err.inner = [kind |-> "Dispatch", error |-> [kind |-> "MissingPipeline"]]
           /\ result'.at = frame.ip
           /\ SelectSeq(Emitted, IsDispatchCall) = <<>>
           /\ cmd_buf'.status = "Error"]_vars

\* A Dispatch that follows a SetBindGroup, with no pipeline set, has
\* returned the missing-pipeline error; no dispatch is in the native stream.
C16_Witness ==
    /\ RunFailedAtOpcode
    /\ result.at = 2
    /\ base.commands[1].op = "SetBindGroup"
    /\ base.commands[2].op = "Dispatch"
    /\ result.err.inner.error.kind = "MissingPipeline"
    /\ SelectSeq(cmd_buf.raw, IsDispatchCall) = <<>>
    /\ cmd_buf.status = "Error"

\* The usage sets a flush merges: those of the active bind groups, in slot
\* order, after what the local tracker already holds.
MergedSets(fr) ==
    <<fr.trackers>> \o [i \in 1..Len(list_active(fr.binder)) |->
                            bind_group_guard[list_active(fr.binder)[i]].used]

\* The buffers and surfaces that two of the usage sets use incompatibly.
ConflictingBuffers(sets) ==
    {b \in ValidBufferIds : \E i, j \in 1..Len(sets) :
        i < j /\ usage_conflicts(sets[i].buffers[b], sets[j].buffers[b])}
ConflictingSurfaces(sets) ==
    {t \in Subresources : \E i, j \in 1..Len(sets) :
        i < j /\ usage_conflicts(sets[i].textures[t], sets[j].textures[t])}
InConflict(sets) == ConflictingBuffers(sets) # {} \/ ConflictingSurfaces(sets) # {}

\* The usage of a resource in all the sets together.
RECURSIVE UsedByAll(_, _, _)
UsedByAll(sets, kind, r) ==
    IF sets = <<>> THEN {}
    ELSE (IF kind = "buffer" THEN Head(sets).buffers[r] ELSE Head(sets).textures[r])
            \cup UsedByAll(Tail(sets), kind, r)

\* The native calls of a step that come after the calls of the discard
\* fixups (the copies marked with the surface they fix, and their barriers).
AfterFixups(calls) ==
    LET marked == {i \in 1..Len(calls) : "fixup" \in DOMAIN calls[i]}
        last == IF marked = {} THEN 0 ELSE CHOOSE i \in marked : \A j \in marked : j <= i
    IN SubSeq(calls, last + 1, Len(calls))

\* The usage of a surface in the command buffer's tracker once the pending
\* fixups have been applied.
SurfaceUseAfterFixups(t) ==
    IF \E i \in 1..Len(frame.pending_discard_init_fixups) :
            frame.pending_discard_init_fixups[i] = t
    THEN {"COPY_DST"} ELSE cmd_buf.trackers.textures[t]

\* The step is one barrier flush of the usage sets `sets` followed by the
\* native call `call`: the sets are merged and the command buffer's tracker
\* takes the merged usages, the transitions this makes are the only
\* barriers emitted (one transition_buffers and one transition_textures at
\* most), the native call follows them, and the local tracker is reset.
FlushedOnceThen(sets, call) ==
    LET buffer_barriers ==
            UNION {PendingTransition(b, cmd_buf.trackers.buffers[b],
                                     UsedByAll(sets, "buffer", b)) :
                        b \in {b \in ValidBufferIds : UsedByAll(sets, "buffer", b) # {}}}
        texture_barriers ==
            UNION {PendingTransition(t, SurfaceUseAfterFixups(t),
                                     UsedByAll(sets, "texture", t)) :
                        t \in {t \in Subresources : UsedByAll(sets, "texture", t) # {}}}
    IN /\ pc' = "replay"
       /\ frame'.ip = frame.ip + 1
       /\ frame'.trackers = EmptyTrackers
       /\ \A b \in ValidBufferIds :
            cmd_buf'.trackers.buffers[b] =
                IF UsedByAll(sets, "buffer", b) # {} THEN UsedByAll(sets, "buffer", b)
                ELSE cmd_buf.trackers.buffers[b]
       /\ \A t \in Subresources :
            cmd_buf'.trackers.textures[t] =
                IF UsedByAll(sets, "texture", t) # {} THEN UsedByAll(sets, "texture", t)
                ELSE SurfaceUseAfterFixups(t)
       /\ AfterFixups(Emitted) =
            RawAt(frame.ip, Barriers("transition_buffers", buffer_barriers)
                            \o Barriers("transition_textures", texture_barriers)
                            \o <<call>>)
       /\ Len(SelectSeq(Emitted, IsDispatchCall)) = 1

\* The Dispatch at the replay position has a pipeline set, no invalid
\* bind-group slot and workgroup counts within the limit.
DispatchIsReady ==
    /\ Fetch("Dispatch")
    /\ frame.pipeline.last_state # None
    /\ invalid_mask(frame.binder) = 0
    /\ \A i \in 1..3 : base.commands[frame.ip].groups[i] <= MAX_COMPUTE_WORKGROUPS_PER_DIMENSION

\* C17 as stated: every Dispatch replayed with a pipeline set, no invalid
\* bind-group slot and workgroup counts within the limit succeeds, and its
\* native dispatch is preceded by exactly one barrier flush.
C17_DispatchFlushesOnce ==
    [][DispatchIsReady
        => FlushedOnceThen(MergedSets(frame),
                           [call |-> "dispatch", groups |-> base.commands[frame.ip].groups])]_vars

\* C17 amended: every such Dispatch whose active bind groups use no resource
\* in mutually incompatible ways succeeds, and its native dispatch is
\* preceded by exactly one barrier flush.
C17_DispatchWithoutConflictFlushesOnce ==
    [][(DispatchIsReady /\ ~InConflict(MergedSets(frame)))
        => FlushedOnceThen(MergedSets(frame),
                           [call |-> "dispatch", groups |-> base.commands[frame.ip].groups])]_vars

\* A dispatch has been emitted right after the barrier that takes buffer 1
\* from the usage of an earlier clear to the usage of bind group 1.
C17_Witness ==
    /\ pc = "replay"
    /\ frame.trackers = EmptyTrackers
    /\ cmd_buf.trackers.buffers[1] = {"STORAGE_READ"}
    /\ \E i \in 1..(Len(cmd_buf.raw) - 1) :
            /\ cmd_buf.raw[i].call = "transition_buffers"
            /\ cmd_buf.raw[i].barriers
                    = {[id |-> 1, old |-> {"COPY_DST"}, new |-> {"STORAGE_READ"}]}
            /\ cmd_buf.raw[i + 1].call = "dispatch"
            /\ i + 1 = Len(cmd_buf.raw)

\* The dispatch at the replay position passes every check that comes
\* before the flush.
ReachesFlush ==
    /\ pc = "replay"
    /\ frame.pipeline.last_state # None
    /\ invalid_mask(frame.binder) = 0
    /\ \/ Fetch("Dispatch")
       \/ /\ Fetch("DispatchIndirect")
          /\ HasIndirectExecution
          /\ LiveBuffer(base.commands[frame.ip].buffer_id)
          /\ "INDIRECT" \in buffer_guard[base.commands[frame.ip].buffer_id].usage
          /\ base.commands[frame.ip].offset + DISPATCH_INDIRECT_ARGS_SIZE
                <= buffer_guard[base.commands[frame.ip].buffer_id].size

\* The usage sets the flush of the dispatch at the replay position merges:
\* for DispatchIndirect the indirect buffer comes first.
SetsAtFlush ==
    IF base.commands[frame.ip].op = "DispatchIndirect"
    THEN <<[buffers |-> [b \in ValidBufferIds |->
                            IF b = base.commands[frame.ip].buffer_id THEN {"INDIRECT"} ELSE {}],
            textures |-> [t \in Subresources |-> {}]]>> \o MergedSets(frame)
    ELSE MergedSets(frame)

\* C19: when the flush of a Dispatch or DispatchIndirect merges usage sets
\* (of the active bind groups, and the indirect buffer) of which two use
\* the same resource incompatibly, the call returns a usage-conflict error
\* that names such a resource, the command buffer's tracker takes none of
\* the merged usages (a surface changes its usage only by a discard fixup),
\* no barrier of the flush and no native dispatch is emitted, and the
\* command buffer is left with the status Error.
C19_UsageConflictAtFlush ==
    [][(ReachesFlush /\ InConflict(SetsAtFlush))
        => /\ pc' = "returned"
           /\ result'.ret = "Err"
           /\ result'.at = frame.ip
           /\ result'.err.inner.kind = "UsageConflict"
           /\ \/ /\ result'.err.inner.resource = "buffer"
                 /\ result'.err.inner.id \in ConflictingBuffers(SetsAtFlush)
              \/ /\ result'.err.inner.resource = "texture"
                 /\ \E t \in ConflictingSurfaces(SetsAtFlush) : result'.err.inner.id = t[1]
           /\ cmd_buf'.trackers.buffers = cmd_buf.trackers.buffers
           /\ \A t \in Subresources :
                cmd_buf'.trackers.textures[t]
                    \in {cmd_buf.trackers.textures[t], SurfaceUseAfterFixups(t)}
           /\ AfterFixups(Emitted) = <<>>
           /\ SelectSeq(Emitted, IsDispatchCall) = <<>>
           /\ cmd_buf'.status = "Error"]_vars

\* A DispatchIndirect that reads its arguments from buffer 1 while bind
\* group 4 writes buffer 1 has returned the usage conflict on buffer 1.
C19_Witness ==
    /\ RunFailedAtOpcode
    /\ base.commands[result.at].op = "DispatchIndirect"
    /\ result.err.inner = [kind |-> "UsageConflict", resource |-> "buffer", id |-> 1]
    /\ SelectSeq(cmd_buf.raw, IsDispatchCall) = <<>>
    /\ cmd_buf.status = "Error"

(***************************************************************************)
(* Debug scopes.                                                           *)
(***************************************************************************)
\* The opcodes `op` among the first k opcodes of the stream.
CountOf(op, k) == Cardinality({i \in 1..k : base.commands[i].op = op})

\* The stream is N PushDebugGroup followed by N PopDebugGroup.
IsBalanced(commands) ==
    /\ Len(commands) % 2 = 0
    /\ \A i \in 1..Len(commands) :
            commands[i].op = IF 2 * i <= Len(commands) THEN "PushDebugGroup"
                             ELSE "PopDebugGroup"

\* C18: a stream of N PushDebugGroup followed by N PopDebugGroup replays
\* without error and ends with depth 0, for every N; a PopDebugGroup
\* replayed at depth 0 fails with InvalidPopDebugGroup and emits no native
\* end-marker; InsertDebugMarker does not change the depth; during the
\* replay the depth is the number of pushes minus the number of pops among
\* the opcodes replayed, and is not negative.
C18_DebugScopeDepth ==
    [][/\ ( /\ result'.call = "run_compute_pass"
            /\ pc' \in {"returned", "panicked"}
            /\ IsBalanced(base.commands) )
            => (result'.ret = "Ok" /\ frame'.debug_scope_depth = 0)
       /\ (Fetch("PopDebugGroup") /\ frame.debug_scope_depth = 0)
            => /\ pc' = "returned"
               /\ result'.ret = "Err"
               /\ result'.err.inner = [kind |-> "InvalidPopDebugGroup"]
               /\ Emitted = <<>>
       /\ Fetch("InsertDebugMarker") => frame'.debug_scope_depth = frame.debug_scope_depth
       /\ pc' = "replay"
            => /\ frame'.debug_scope_depth =
                    CountOf("PushDebugGroup", frame'.ip - 1)
                        - CountOf("PopDebugGroup", frame'.ip - 1)
               /\ frame'.debug_scope_depth >= 0]_vars

(***************************************************************************)
(* C20  Lock order and deadlock freedom                                    *)
(***************************************************************************)
\* the global order: device, command buffer, layouts / bind groups /
\* pipelines / query sets, buffer, texture
Level(registry) ==
    CASE registry = "devices" -> 1
      [] registry = "command_buffers" -> 2
      [] registry = "buffers" -> 4
      [] registry = "textures" -> 5
      [] OTHER -> 3

\* the locks thread t has taken so far, in the order it took them
Taken(t) == SubSeq(LocksOf(threads[t].op), 1, threads[t].held)

FollowsGlobalOrder(t) ==
    \A i, j \in 1 .. threads[t].held :
        i < j =>
            /\ Level(Taken(t)[i].registry) <= Level(Taken(t)[j].registry)
            /\ Taken(t)[i].registry # Taken(t)[j].registry

\* thread t waits for a lock it cannot get, even from a lock that lets readers
\* overtake waiting writers
Waits(t) ==
    /\ InEntryPoint(t)
    /\ threads[t].held \notin ReturnPoints(threads[t].op)
    /\ ~CanLock(t)

\* thread t can go on, even with a lock that is fair to waiting writers
CanGoOn(t) ==
    /\ InEntryPoint(t)
    /\ \/ threads[t].held \in ReturnPoints(threads[t].op)
       \/ CanLockFairly(t)

\* C20: every thread takes the registry locks in the global order device,
\* command buffer, layout / bind group / pipeline / query set, buffer, texture,
\* and whenever some thread is inside clear_buffer, clear_texture or
\* run_compute_pass, some thread can take its next lock or return: the threads
\* never all wait for one another.
C20_LockOrderAndNoDeadlock ==
    /\ \A t \in Threads : FollowsGlobalOrder(t)
    /\ (\E t \in Threads : InEntryPoint(t)) => \E t \in Threads : CanGoOn(t)

\* a run_compute_pass that holds the device lock waits for the command buffer
\* lock held by a clear_buffer, while a clear_texture waits for the device lock
C20_Witness ==
    \E t, u, w \in Threads :
        /\ threads[t].op = "run_compute_pass" /\ threads[t].held = 1 /\ Waits(t)
        /\ threads[u].op = "clear_buffer" /\ threads[u].held = 1
        /\ threads[w].op = "clear_texture" /\ threads[w].held = 0 /\ Waits(w)

(***************************************************************************)
(* C21  The recorder is append-only and validation-free                    *)
(***************************************************************************)
\* a recording call is made in this step: it returns with the pass changed,
\* or it panics
RecorderCall ==
    /\ pc = "idle"
    /\ \/ result'.call = "recorder"
       \/ base' # base /\ base'.commands # <<>>

IsPrefix(s, t) == Len(s) <= Len(t) /\ SubSeq(t, 1, Len(s)) = s

\* C21: every recording call appends exactly one opcode at the end of the
\* command list, only appends to the side buffers, leaves every recorded
\* opcode and side-buffer word as it was, emits no native call and leaves the
\* command buffer alone, whatever ids, indices and sizes it is given: in
\* particular it returns.
C21_RecorderAppendOnly ==
    [][RecorderCall =>
          /\ result'.call # "recorder"
          /\ Len(base'.commands) = Len(base.commands) + 1
          /\ IsPrefix(base.commands, base'.commands)
          /\ IsPrefix(base.dynamic_offsets, base'.dynamic_offsets)
          /\ IsPrefix(base.string_data, base'.string_data)
          /\ IsPrefix(base.push_constant_data, base'.push_constant_data)
          /\ UNCHANGED <<cmd_buf, frame, pc>>]_vars

(***************************************************************************)
(* C22  Record / replay round trip of the side buffers                     *)
(***************************************************************************)
\* what opcode c has put into the side buffer of its kind
DataLen(c, kind) ==
    CASE kind = "offsets" /\ c.op = "SetBindGroup" -> c.num_dynamic_offsets
      [] kind = "labels" /\ c.op \in {"PushDebugGroup", "InsertDebugMarker"} -> c.len
      [] kind = "words" /\ c.op = "SetPushConstant" -> c.size_bytes \div PUSH_CONSTANT_ALIGNMENT
      [] OTHER -> 0

\* what the first n opcodes have put into the side buffer of a kind
RECURSIVE DataBefore(_, _, _)
DataBefore(commands, n, kind) ==
    IF n = 0 THEN 0
    ELSE DataBefore(commands, n - 1, kind) + DataLen(commands[n], kind)

SideBuffer(b, kind) ==
    CASE kind = "offsets" -> b.dynamic_offsets
      [] kind = "labels" -> b.string_data
      [] kind = "words" -> b.push_constant_data

\* the data recorded with the k-th opcode of the pass
RecordedFor(k, kind) ==
    SubSeq(SideBuffer(base, kind),
           DataBefore(base.commands, k - 1, kind) + 1,
           DataBefore(base.commands, k, kind))

LastCall(cb) == cb.raw[Len(cb.raw)]

\* the recorder appends to each side buffer what the new opcode says it holds
RecordsItsData ==
    (pc = "idle" /\ base' # base /\ base'.commands # <<>>) =>
        \A kind \in {"offsets", "labels", "words"} :
            Len(SideBuffer(base', kind)) =
                Len(SideBuffer(base, kind))
                    + DataLen(base'.commands[Len(base'.commands)], kind)

\* an opcode that replays without error is given the data recorded with it
ReplaysItsData ==
    (pc = "replay" /\ pc' = "replay" /\ frame'.ip = frame.ip + 1) =>
        LET c == base.commands[frame.ip]
        IN /\ c.op = "SetBindGroup" =>
                  frame'.binder.payloads[c.index].dynamic_offsets =
                      RecordedFor(frame.ip, "offsets")
           /\ c.op \in {"PushDebugGroup", "InsertDebugMarker"} =>
                  /\ Len(cmd_buf'.raw) = Len(cmd_buf.raw) + 1
                  /\ LastCall(cmd_buf').label = RecordedFor(frame.ip, "labels")
           /\ c.op = "SetPushConstant" =>
                  /\ Len(cmd_buf'.raw) = Len(cmd_buf.raw) + 1
                  /\ LastCall(cmd_buf').data = RecordedFor(frame.ip, "words")

\* the cursors stay inside the side buffers and end at their ends
CursorsInside ==
    /\ pc \in {"replay", "ended", "fixups"} =>
          /\ frame.dynamic_offset_count <= Len(base.dynamic_offsets)
          /\ frame.string_offset <= Len(base.string_data)
    /\ (RunReturned /\ result.ret = "Ok") =>
          /\ frame.dynamic_offset_count = Len(base.dynamic_offsets)
          /\ frame.string_offset = Len(base.string_data)

\* C22: replay hands to every SetBindGroup the dynamic offsets recorded with
\* it, to every PushDebugGroup and InsertDebugMarker the label bytes recorded
\* with it and to every SetPushConstant the words recorded with it; the
\* cursors never pass the end of a side buffer, and after a replay without
\* error the dynamic-offset and label cursors are at the ends.
C22_SideBufferRoundTrip ==
    [][RecordsItsData /\ ReplaysItsData /\ CursorsInside']_vars

\* a pass whose second SetBindGroup carries the offset 8 after a first one
\* with the offset 4 has replayed without error
C22_Witness ==
    /\ RunReturned
    /\ result.ret = "Ok"
    /\ Len(base.commands) = 3
    /\ base.dynamic_offsets = <<4, 8>>
    /\ frame.binder.payloads[1].dynamic_offsets = <<8>>

(***************************************************************************)
(* C23  Every error carries the scope of the place where it arose          *)
(***************************************************************************)
\* the scope of the opcode c, replayed in the state fr
ScopeOf(c, fr) ==
    CASE c.op = "SetBindGroup" -> [scope |-> "SetBindGroup", id |-> c.bind_group_id]
      [] c.op = "SetPipeline" -> [scope |-> "SetPipelineCompute", id |-> c.pipeline_id]
      [] c.op = "Dispatch" ->
            [scope |-> "Dispatch", indirect |-> FALSE, pipeline |-> fr.pipeline.last_state]
      [] c.op = "DispatchIndirect" ->
            [scope |-> "Dispatch", indirect |-> TRUE, pipeline |-> fr.pipeline.last_state]
      [] OTHER -> [scope |-> c.op]

\* what the arm of the opcode c does in the state fr
ArmOf(c, fr, cb) ==
    CASE c.op = "SetBindGroup" -> SetBindGroup(c, fr, cb)
      [] c.op = "SetPipeline" -> SetPipeline(c, fr, cb)
      [] c.op = "SetPushConstant" -> SetPushConstant(c, fr, cb)
      [] c.op = "Dispatch" -> Dispatch(c, fr, cb)
      [] c.op = "DispatchIndirect" -> DispatchIndirect(c, fr, cb, "wrapping")
      [] c.op = "PushDebugGroup" -> PushDebugGroup(c, fr, cb, "wrapping")
      [] c.op = "PopDebugGroup" -> PopDebugGroup(c, fr, cb)
      [] c.op = "InsertDebugMarker" -> InsertDebugMarker(c, fr, cb)
      [] c.op = "WriteTimestamp" -> WriteTimestamp(c, fr, cb)
      [] c.op = "BeginPipelineStatisticsQuery" -> BeginPipelineStatisticsQuery(c, fr, cb)
      [] c.op = "EndPipelineStatisticsQuery" -> EndPipelineStatisticsQuery(c, fr, cb)

RunReturnsErr == result'.call = "run_compute_pass" /\ result'.ret = "Err" /\ result' # result

\* C23: the error of a run that cannot resolve its encoder carries the pass
\* scope; the error of an opcode carries the scope of the opcode's kind, with
\* the bind group id for SetBindGroup, the pipeline id for SetPipeline and
\* the indirect flag and the current pipeline for the dispatches; and an
\* opcode that fails makes the run return its error, never Ok.
C23_ErrorsCarryTheirScope ==
    [][/\ (pc = "idle" /\ RunReturnsErr) =>
              /\ result'.err.scope = [scope |-> "Pass"]
              /\ ~get_encoder_mut(cmd_buf)
       /\ (pc = "replay" /\ RunReturnsErr) =>
              /\ result'.at = frame.ip
              /\ result'.err.scope = ScopeOf(base.commands[frame.ip], frame)
       /\ (pc = "replay" /\ frame.ip <= Len(base.commands)
             /\ ArmOf(base.commands[frame.ip], frame, cmd_buf).flow = "err") =>
              /\ pc' = "returned"
              /\ RunReturnsErr
              /\ result'.err.inner =
                    ArmOf(base.commands[frame.ip], frame, cmd_buf).err.inner
       /\ (result'.call = "run_compute_pass" /\ result'.ret = "Ok" /\ result' # result) =>
              /\ pc = "fixups"
              /\ frame.ip = Len(base.commands) + 1]_vars

\* a Dispatch after SetPipeline(1) has failed, and the error names the
\* dispatch, not indirect, with pipeline 1
C23_Witness ==
    /\ RunFailedAtOpcode
    /\ result.at = 2
    /\ result.err.scope = [scope |-> "Dispatch", indirect |-> FALSE, pipeline |-> Some(1)]

(***************************************************************************)
(* C24  parse_version reports WebGL versions as OpenGL ES versions         *)
(***************************************************************************)
Contains(src, pat) == Occurrences(src, pat) # {}

\* the major number the call has parsed: the first piece of the version it
\* has cut out of its argument
ParsedMajor(src) ==
    decimal(LET piece == split_dots(version_of(strip_glsl(unwrap(strip_signature(src)))))[1]
            IN IF piece[1] = "+" THEN Tail(piece) ELSE piece)

IsNumber(s) == s # <<>> /\ \A i \in 1 .. Len(s) : s[i] \in DOMAIN DigitValue

\* the version the call looks at starts with <major>.<minor>: a number, a
\* dot and a digit
HasNumberPair(src) ==
    LET it == split_dots(version_of(strip_glsl(unwrap(strip_signature(src)))))
    IN Len(it) >= 2 /\ IsNumber(it[1]) /\ it[2] # <<>> /\ IsNumber(<<it[2][1]>>)

\* C24: a string that starts with "WebGL " and does not contain "GLSL ES "
\* gives the parsed major plus one; every other accepted string gives the
\* major as parsed; a string that neither starts with "WebGL " nor contains
\* " ES ", or without a <major>.<minor> pair of numbers, gives an error.
C24_ParseVersion ==
    (result.call = "parse_version") =>
        LET src == result.args
            webgl == starts_with(src, webgl_sig) /\ ~Contains(src, glsl_es_sig)
        IN /\ result.ret \in {"Ok", "Err"}
           /\ result.ret = "Ok" =>
                 result.value[1] = ParsedMajor(src) + (IF webgl THEN 1 ELSE 0)
           /\ (~starts_with(src, webgl_sig) /\ ~Contains(src, es_sig)) => result.ret = "Err"
           /\ result.ret = "Ok" => HasNumberPair(src)

(***************************************************************************)
(* C25  End-of-pass ordering                                               *)
(***************************************************************************)
IsFixupCall(c) == c.call = "copy_buffer_to_texture" /\ "fixup" \in DOMAIN c

IsEndOfPass(c) == c.call = "end_compute_pass"

\* the surfaces cleared by the fixup calls among `calls`, in order
FixupsIn(calls) ==
    [i \in 1 .. Len(SelectSeq(calls, IsFixupCall)) |-> SelectSeq(calls, IsFixupCall)[i].fixup]

\* C25: after the last opcode the pending fixups are drained first, then the
\* native pass is ended, then the status flips to Recording: no fixup is
\* pending when the native pass has been ended, and no fixup clear follows the
\* native end-of-pass call.
C25_FixupsBeforeEndOfPass ==
    /\ pc = "ended" => frame.pending_discard_init_fixups = <<>>
    /\ (RunReturned /\ result.ret = "Ok") =>
          \A i, j \in 1 .. Len(cmd_buf.raw) :
              (IsEndOfPass(cmd_buf.raw[i]) /\ i < j) => ~IsFixupCall(cmd_buf.raw[j])

\* C25 as the code has it: after the last opcode of a stream that replayed
\* without error the native pass is ended first, with the status still Error
\* and the pending fixups untouched; then the status flips to Recording; then
\* the pending fixups are drained, each by a clear emitted after the native
\* end-of-pass call, and the call returns Ok.
C25_EndOfPassBeforeFixups ==
    [][/\ (pc = "replay" /\ pc' # "replay" /\ frame.ip > Len(base.commands)) =>
              /\ pc' = "ended"
              /\ Len(Emitted) = 1 /\ IsEndOfPass(Emitted[1])
              /\ cmd_buf'.status = "Error"
              /\ frame' = frame
       /\ pc = "ended" =>
              /\ pc' = "fixups"
              /\ Emitted = <<>>
              /\ cmd_buf'.status = "Recording"
              /\ frame' = frame
       /\ pc = "fixups" =>
              /\ pc' = "returned" /\ result' = Ok("run_compute_pass")
              /\ FixupsIn(Emitted) = frame.pending_discard_init_fixups
              /\ \A i \in 1 .. Len(Emitted) :
                    IsFixupCall(Emitted[i]) \/ Emitted[i].call = "transition_textures"
              /\ frame'.pending_discard_init_fixups = <<>>
              /\ cmd_buf'.status = "Recording"
       /\ (result'.call = "run_compute_pass" /\ result'.ret = "Ok" /\ result' # result) =>
              pc = "fixups"]_vars

\* a run has returned Ok with a fixup clear behind the native end of the pass
C25_Witness ==
    /\ RunReturned
    /\ result.ret = "Ok"
    /\ \E i, j \in 1 .. Len(cmd_buf.raw) :
          i < j /\ IsEndOfPass(cmd_buf.raw[i]) /\ IsFixupCall(cmd_buf.raw[j])

(***************************************************************************)
(* C26  Every usage transition is matched by a barrier                     *)
(***************************************************************************)
\* the transitions a clear call has made in the command buffer's tracker:
\* the destinations whose recorded usage has changed from another usage
BufferTransitions ==
    UNION {PendingTransition(b, cmd_buf.trackers.buffers[b], cmd_buf'.trackers.buffers[b]) :
                b \in ValidBufferIds}

TextureTransitions ==
    UNION {PendingTransition(t, cmd_buf.trackers.textures[t], cmd_buf'.trackers.textures[t]) :
                t \in Subresources}

IsBarrierCall(c) == c.call \in {"transition_buffers", "transition_textures"}

\* C26: whenever clear_buffer or clear_texture changes the recorded usage of
\* its destination from another usage to COPY_DST, the call emits exactly one
\* native barrier, which holds exactly these transitions, whatever it returns;
\* and it emits no barrier otherwise.
C26_TransitionsHaveBarriers ==
    [][/\ ClearBufferStep =>
              SelectSeq(Emitted, IsBarrierCall) =
                  Barriers("transition_buffers", BufferTransitions)
       /\ ClearTextureStep =>
              SelectSeq(Emitted, IsBarrierCall) =
                  Barriers("transition_textures", TextureTransitions)]_vars

(***************************************************************************)
(* Properties of the workgroup counts of Dispatch.                         *)
(***************************************************************************)
\* The Dispatch at the replay position has a pipeline set and no invalid
\* bind-group slot.
DispatchInReadyState ==
    /\ Fetch("Dispatch")
    /\ frame.pipeline.last_state # None
    /\ invalid_mask(frame.binder) = 0

GroupsOfDispatch == base.commands[frame.ip].groups

WithinLimit(groups) ==
    \A i \in 1..3 : groups[i] <= MAX_COMPUTE_WORKGROUPS_PER_DIMENSION

DispatchEmitted ==
    SelectSeq(Emitted, IsDispatchCall)
        = RawAt(frame.ip, <<[call |-> "dispatch", groups |-> GroupsOfDispatch]>>)

\* The step fails with InvalidGroupSize carrying the counts and the limit,
\* after the barriers of the flush and without a native dispatch.
FailsWithInvalidGroupSize ==
    /\ pc' = "returned"
    /\ result'.ret = "Err"
    /\ result'.at = frame.ip
    /\ result'.err.inner
            = [kind |-> "Dispatch",
               error |-> [kind |-> "InvalidGroupSize", current |-> GroupsOfDispatch,
                          limit |-> MAX_COMPUTE_WORKGROUPS_PER_DIMENSION]]
    /\ SelectSeq(Emitted, IsDispatchCall) = <<>>
    /\ frame'.trackers = EmptyTrackers
    /\ SelectSeq(Emitted, IsBarrierCall)
            = SelectSeq(insert_barriers(
                            [cmd_buf EXCEPT !.raw = <<>>],
                            merge_active(list_active(frame.binder), frame.trackers).trackers,
                            frame.ip).raw,
                        IsBarrierCall)

\* C27 as stated: a Dispatch(x, y, z) replayed with a pipeline set and no
\* invalid bind-group slot emits the native dispatch if and only if each of
\* x, y and z is at most max_compute_workgroups_per_dimension; otherwise it
\* fails with InvalidGroupSize carrying the three counts and the limit and
\* emits no native dispatch, with the barriers of the tracker flush already
\* emitted.
C27_DispatchGroupSize ==
    [][DispatchInReadyState
        => IF WithinLimit(GroupsOfDispatch)
           THEN DispatchEmitted
           ELSE FailsWithInvalidGroupSize]_vars

\* C27 amended: the same for every such Dispatch whose active bind groups
\* use no resource in mutually incompatible ways, so that its flush
\* succeeds.
C27_DispatchGroupSizeAfterFlush ==
    [][(DispatchInReadyState /\ ~InConflict(MergedSets(frame)))
        => IF WithinLimit(GroupsOfDispatch)
           THEN DispatchEmitted
           ELSE FailsWithInvalidGroupSize]_vars

\* A Dispatch with one count above the limit in the third dimension has
\* failed with InvalidGroupSize right after the barrier of its flush, which
\* takes buffer 1 from the usage of an earlier clear to the usage of bind
\* group 1, and no dispatch has been emitted.
C27_Witness ==
    /\ RunFailedAtOpcode
    /\ result.err.inner
            = [kind |-> "Dispatch",
               error |-> [kind |-> "InvalidGroupSize",
                          current |-> <<0, 0, MAX_COMPUTE_WORKGROUPS_PER_DIMENSION + 1>>,
                          limit |-> MAX_COMPUTE_WORKGROUPS_PER_DIMENSION]]
    /\ cmd_buf.raw[Len(cmd_buf.raw)].call = "transition_buffers"
    /\ cmd_buf.raw[Len(cmd_buf.raw)].at = result.at
    /\ cmd_buf.raw[Len(cmd_buf.raw)].barriers
            = {[id |-> 1, old |-> {"COPY_DST"}, new |-> {"STORAGE_READ"}]}


(***************************************************************************)
(* Properties of DispatchIndirect.                                         *)
(***************************************************************************)
IndirectArgs == base.commands[frame.ip]

\* The checks of the DispatchIndirect at the replay position: the state is
\* ready, the device executes indirect dispatches, the buffer resolves and
\* carries INDIRECT, and [offset, offset + 12) lies within the buffer.
IndirectChecksPass ==
    /\ frame.pipeline.last_state # None
    /\ invalid_mask(frame.binder) = 0
    /\ HasIndirectExecution
    /\ LiveBuffer(IndirectArgs.buffer_id)
    /\ "INDIRECT" \in buffer_guard[IndirectArgs.buffer_id].usage
    /\ IndirectArgs.offset + DISPATCH_INDIRECT_ARGS_SIZE
            <= buffer_guard[IndirectArgs.buffer_id].size

IsDispatchIndirectCall(c) == c.call = "dispatch_indirect"

\* C28: a DispatchIndirect emits the native dispatch_indirect only if the
\* state is ready, the device executes indirect dispatches, the buffer
\* resolves and carries INDIRECT, and [offset, offset + 12) fits within the
\* buffer, whatever the 64-bit offset; when it is emitted, a
\* NeedsInitializedMemory action for exactly [offset, offset + 12) has been
\* registered; when one of the checks fails, the opcode fails and neither
\* a barrier nor a native dispatch is emitted.
C28_DispatchIndirectChecks ==
    [][Fetch("DispatchIndirect")
        => /\ SelectSeq(Emitted, IsDispatchIndirectCall) # <<>>
                => /\ IndirectChecksPass
                   /\ SubSeq(cmd_buf'.buffer_memory_init_actions,
                             Len(cmd_buf.buffer_memory_init_actions) + 1,
                             Len(cmd_buf'.buffer_memory_init_actions))
                        = <<[id |-> IndirectArgs.buffer_id,
                             range |-> Range(IndirectArgs.offset,
                                             IndirectArgs.offset + DISPATCH_INDIRECT_ARGS_SIZE),
                             kind |-> "NeedsInitializedMemory"]>>
           /\ ~IndirectChecksPass
                => /\ pc' = "returned"
                   /\ result'.ret = "Err"
                   /\ result'.at = frame.ip
                   /\ SelectSeq(Emitted, IsBarrierCall) = <<>>
                   /\ SelectSeq(Emitted, IsDispatchCall) = <<>>]_vars


(***************************************************************************)
(* Properties of the readiness check.                                      *)
(***************************************************************************)
\* The slots whose bound layout is not the one the pipeline layout expects.
InvalidSlots == {i \in Slots : ~entry_is_valid(frame.binder.entries[i])}

\* The step returns the readiness error e of the dispatch at the replay
\* position.
FailsReadiness(e) ==
    /\ pc' = "returned"
    /\ result'.ret = "Err"
    /\ result'.at = frame.ip
    /\ result'.err.inner = [kind |-> "Dispatch", error |-> e]
    /\ SelectSeq(Emitted, IsBarrierCall) = <<>>
    /\ SelectSeq(Emitted, IsDispatchCall) = <<>>

\* C29: a Dispatch or DispatchIndirect replayed with an invalid bind-group
\* slot fails with IncompatibleBindGroup whose index is the lowest invalid
\* slot, whether or not a pipeline is set; with no invalid slot and no
\* pipeline it fails with MissingPipeline; it goes on to its other checks
\* only with no invalid slot and a pipeline set.
C29_ReadinessCheck ==
    [][(Fetch("Dispatch") \/ Fetch("DispatchIndirect"))
        => /\ invalid_mask(frame.binder) = 0 <=> InvalidSlots = {}
           /\ InvalidSlots # {}
                => FailsReadiness([kind |-> "IncompatibleBindGroup",
                                   index |-> SetMin(InvalidSlots)])
           /\ (InvalidSlots = {} /\ frame.pipeline.last_state = None)
                => FailsReadiness([kind |-> "MissingPipeline"])
           /\ (InvalidSlots = {} /\ frame.pipeline.last_state # None)
                => ~(/\ pc' = "returned"
                     /\ result'.ret = "Err"
                     /\ result'.err.inner.kind = "Dispatch"
                     /\ result'.err.inner.error.kind
                            \in {"IncompatibleBindGroup", "MissingPipeline"})]_vars

\* A dispatch replayed with both slots of the pipeline layout invalid has
\* failed with IncompatibleBindGroup for slot 0.
C29_Witness ==
    /\ RunFailedAtOpcode
    /\ base.commands[result.at].op \in {"Dispatch", "DispatchIndirect"}
    /\ {i \in Slots : ~entry_is_valid(frame.binder.entries[i])} = {0, 1}
    /\ result.err.inner
            = [kind |-> "Dispatch", error |-> [kind |-> "IncompatibleBindGroup", index |-> 0]]


(***************************************************************************)
(* Properties of SetPipeline.                                              *)
(***************************************************************************)
PipelineToSet == base.commands[frame.ip].pipeline_id

\* The SetPipeline at the replay position names the current pipeline.
SetsCurrentPipeline ==
    /\ Fetch("SetPipeline")
    /\ frame.pipeline.last_state = Some(PipelineToSet)

\* It names another pipeline of the registry, whose layout is the current
\* layout of the binder.
SetsPipelineOfSameLayout ==
    /\ Fetch("SetPipeline")
    /\ frame.pipeline.last_state # Some(PipelineToSet)
    /\ PipelineToSet \in ValidComputePipelineIds
    /\ frame.binder.pipeline_layout_id = Some(pipeline_guard[PipelineToSet].layout_id)

\* C30: a SetPipeline with the id of the current pipeline emits no native
\* call and leaves the binder, the pass state and the command buffer as
\* they are; a SetPipeline with another id whose layout is the current one
\* emits the native set_compute_pipeline alone, without set_bind_group or
\* set_push_constants, and leaves the binder as it is.
C30_SetPipelineRedundancy ==
    [][/\ SetsCurrentPipeline
            => /\ pc' = "replay"
               /\ cmd_buf' = cmd_buf
               /\ frame' = [frame EXCEPT !.ip = @ + 1]
       /\ SetsPipelineOfSameLayout
            => /\ pc' = "replay"
               /\ Emitted = RawAt(frame.ip, <<[call |-> "set_compute_pipeline",
                                               pipeline |-> pipeline_guard[PipelineToSet].raw]>>)
               /\ frame'.binder = frame.binder
               /\ frame'.pipeline.last_state = Some(PipelineToSet)]_vars

\* After SetPipeline(1) and SetBindGroup(0, 1), SetPipeline(3), whose layout
\* is that of pipeline 1, has emitted set_compute_pipeline as its only
\* native call, with bind group 1 still bound in slot 0.
C30_Witness ==
    /\ pc = "replay"
    /\ frame.ip = 4
    /\ base.commands[3] = [op |-> "SetPipeline", pipeline_id |-> 3]
    /\ frame.pipeline.last_state = Some(3)
    /\ frame.binder.payloads[0].group_id = Some(1)
    /\ SelectSeq(cmd_buf.raw, LAMBDA c : c.at = 3)
            = <<[call |-> "set_compute_pipeline", pipeline |-> 3, at |-> 3]>>


(***************************************************************************)
(* Properties of the push constants cleared by SetPipeline.                *)
(***************************************************************************)
\* The SetPipeline at the replay position names a pipeline of the registry
\* whose layout is not the current layout of the binder.
SetsPipelineOfOtherLayout ==
    /\ Fetch("SetPipeline")
    /\ frame.pipeline.last_state # Some(PipelineToSet)
    /\ PipelineToSet \in ValidComputePipelineIds
    /\ frame.binder.pipeline_layout_id # Some(pipeline_guard[PipelineToSet].layout_id)

\* The push-constant bytes a pipeline layout declares; none without a
\* layout.
DeclaredBytes(layout_id) ==
    IF layout_id = None THEN {}
    ELSE UNION {RangeSet(pipeline_layout_guard[unwrap(layout_id)].push_constant_ranges[i].range) :
                    i \in 1..Len(pipeline_layout_guard[unwrap(layout_id)].push_constant_ranges)}

IsPushConstantWrite(c) == c.call = "set_push_constants"

PushConstantWrites == SelectSeq(Emitted, IsPushConstantWrite)

\* The bytes the push-constant writes of the step cover.
WrittenBytes ==
    UNION {RangeSet(Range(PushConstantWrites[i].offset,
                          PushConstantWrites[i].offset
                            + PUSH_CONSTANT_ALIGNMENT * Len(PushConstantWrites[i].data))) :
                i \in 1..Len(PushConstantWrites)}

WritesAreZeroFills ==
    \A i \in 1..Len(PushConstantWrites) :
        /\ PushConstantWrites[i].layout = pipeline_guard[PipelineToSet].layout_id
        /\ \A k \in 1..Len(PushConstantWrites[i].data) : PushConstantWrites[i].data[k] = 0

OldLayout == frame.binder.pipeline_layout_id
NewLayout == Some(pipeline_guard[PipelineToSet].layout_id)

\* C31 as stated: a SetPipeline whose layout differs from the previous
\* layout zero-fills exactly the push-constant bytes that one of the two
\* layouts declares and the other does not, and no byte that both declare.
C31_ClearsUnsharedPushConstants ==
    [][SetsPipelineOfOtherLayout
        => /\ WritesAreZeroFills
           /\ WrittenBytes = (DeclaredBytes(NewLayout) \union DeclaredBytes(OldLayout))
                                \ (DeclaredBytes(NewLayout) \intersect DeclaredBytes(OldLayout))]_vars

\* C31 amended: a SetPipeline whose layout differs from the previous layout
\* zero-fills exactly the push-constant bytes the new layout declares,
\* whether or not the previous layout declares them too, and no byte that
\* only the previous layout declares.
C31_ClearsPushConstantsOfNewLayout ==
    [][SetsPipelineOfOtherLayout
        => /\ WritesAreZeroFills
           /\ WrittenBytes = DeclaredBytes(NewLayout)]_vars

\* SetPipeline(2), whose layout declares bytes 0..4, has followed
\* SetPipeline(1), whose layout declares bytes 0..8, and has zero-filled
\* bytes 0..4.
C31_Witness ==
    /\ pc = "replay"
    /\ frame.ip = 3
    /\ base.commands[1] = [op |-> "SetPipeline", pipeline_id |-> 1]
    /\ base.commands[2] = [op |-> "SetPipeline", pipeline_id |-> 2]
    /\ SelectSeq(cmd_buf.raw, LAMBDA c : c.at = 2 /\ c.call = "set_push_constants")
            = <<[call |-> "set_push_constants", layout |-> 2, stages |-> "COMPUTE",
                 offset |-> 0, data |-> <<0>>, at |-> 2]>>


(***************************************************************************)
(* Properties of the slot of SetBindGroup.                                 *)
(***************************************************************************)
SlotToSet == base.commands[frame.ip].index

IsIndexOutOfRange(r) ==
    /\ r.ret = "Err"
    /\ r.err.inner.kind = "BindGroupIndexOutOfRange"

\* C32: a SetBindGroup whose index is not below max_bind_groups fails with
\* BindGroupIndexOutOfRange carrying the index and the limit, with no
\* dynamic offset consumed, the binder and the rest of the pass state as
\* they were, no init action queued and no native call emitted; a
\* SetBindGroup whose index is below max_bind_groups does not fail with
\* that error.
C32_BindGroupIndexBound ==
    [][Fetch("SetBindGroup")
        => IF SlotToSet >= MAX_BIND_GROUPS_LIMIT
           THEN /\ pc' = "returned"
                /\ IsIndexOutOfRange(result')
                /\ result'.at = frame.ip
                /\ result'.err.inner.index = SlotToSet
                /\ result'.err.inner.max = MAX_BIND_GROUPS_LIMIT
                /\ frame' = frame
                /\ cmd_buf' = cmd_buf
           ELSE ~IsIndexOutOfRange(result')]_vars

\* A SetBindGroup with one dynamic offset and the index max_bind_groups has
\* failed as the second opcode of a pass, with no dynamic offset consumed.
C32_Witness ==
    /\ RunFailedAtOpcode
    /\ result.at = 2
    /\ IsIndexOutOfRange(result)
    /\ result.err.inner.index = MAX_BIND_GROUPS_LIMIT
    /\ base.commands[2].num_dynamic_offsets = 1
    /\ frame.dynamic_offset_count = 0


(***************************************************************************)
(* Properties of where usages are merged.                                  *)
(***************************************************************************)
\* A step of a run that is not the replay of a dispatch.
StepWithoutDispatch ==
    /\ pc \in {"replay", "ended", "fixups"}
    /\ ~Fetch("Dispatch")
    /\ ~Fetch("DispatchIndirect")

NoBarrierAndNoUsageChange ==
    /\ SelectSeq(Emitted, IsBarrierCall) = <<>>
    /\ cmd_buf'.trackers.buffers = cmd_buf.trackers.buffers
    /\ cmd_buf'.trackers.textures = cmd_buf.trackers.textures

\* The surfaces whose discard fixup is pending.
PendingFixups ==
    {frame.pending_discard_init_fixups[i] : i \in 1..Len(frame.pending_discard_init_fixups)}

\* The only usages that change are those of pending fixups, which become
\* COPY_DST, and the only barriers are those of the fixups.
OnlyFixupsChangeUsage ==
    /\ cmd_buf'.trackers.buffers = cmd_buf.trackers.buffers
    /\ \A t \in Subresources :
            cmd_buf'.trackers.textures[t] # cmd_buf.trackers.textures[t]
                => t \in PendingFixups /\ cmd_buf'.trackers.textures[t] = {"COPY_DST"}
    /\ SelectSeq(AfterFixups(Emitted), IsBarrierCall) = <<>>

\* The usages that change at a dispatch are those of the sets its flush
\* merges (the active bind groups and the indirect buffer) and of the
\* pending fixups, and every barrier of the flush is for a resource of
\* those sets.
OnlyFlushedSetsChangeUsage ==
    /\ \A b \in ValidBufferIds :
            cmd_buf'.trackers.buffers[b] # cmd_buf.trackers.buffers[b]
                => /\ UsedByAll(SetsAtFlush, "buffer", b) # {}
                   /\ cmd_buf'.trackers.buffers[b] = UsedByAll(SetsAtFlush, "buffer", b)
    /\ \A t \in Subresources :
            cmd_buf'.trackers.textures[t] # cmd_buf.trackers.textures[t]
                => \/ /\ UsedByAll(SetsAtFlush, "texture", t) # {}
                      /\ cmd_buf'.trackers.textures[t] = UsedByAll(SetsAtFlush, "texture", t)
                   \/ /\ t \in PendingFixups
                      /\ cmd_buf'.trackers.textures[t] = {"COPY_DST"}
    /\ \A i \in 1..Len(AfterFixups(Emitted)) :
            IsBarrierCall(AfterFixups(Emitted)[i])
                => \A x \in AfterFixups(Emitted)[i].barriers :
                        UsedByAll(SetsAtFlush,
                                  IF AfterFixups(Emitted)[i].call = "transition_buffers"
                                  THEN "buffer" ELSE "texture", x.id) # {}

\* C33 as stated: a step of a run that is not the replay of a Dispatch or
\* DispatchIndirect emits no buffer or texture barrier and leaves the usage
\* states of the command buffer's tracker as they are; at a dispatch the
\* usages that change and the barriers are those of the bind groups active
\* then.
C33_UsageMergedOnlyAtDispatch ==
    [][/\ StepWithoutDispatch => NoBarrierAndNoUsageChange
       /\ (Fetch("Dispatch") \/ Fetch("DispatchIndirect")) => OnlyFlushedSetsChangeUsage]_vars

\* C33 amended: the same, except that the discard fixups still pending
\* after the last opcode are applied after the end of the pass, dispatch or
\* not: they move their surfaces to COPY_DST with their barriers, and
\* change nothing else.
C33_UsageMergedAtDispatchOrFixup ==
    [][/\ (StepWithoutDispatch /\ pc # "fixups") => NoBarrierAndNoUsageChange
       /\ pc = "fixups" => OnlyFixupsChangeUsage
       /\ (Fetch("Dispatch") \/ Fetch("DispatchIndirect")) => OnlyFlushedSetsChangeUsage]_vars

\* With pipeline 1, whose layout has one slot, bind group 1 (reads buffer
\* 1) in slot 0 and bind group 2 (writes buffer 1) in slot 1, a dispatch
\* has flushed: the command buffer's tracker holds the usage of the active
\* group alone.
C33_Witness ==
    /\ pc = "replay"
    /\ frame.ip = 5
    /\ base.commands[4].op = "Dispatch"
    /\ frame.pipeline.last_state = Some(1)
    /\ frame.binder.payloads[0].group_id = Some(1)
    /\ frame.binder.payloads[1].group_id = Some(2)
    /\ cmd_buf.trackers.buffers[1] = {"STORAGE_READ"}
    /\ cmd_buf.raw[Len(cmd_buf.raw)].call = "dispatch"


(***************************************************************************)
(* Properties of the bytes per row of the regions.                         *)
(***************************************************************************)
\* The bytes of one row of blocks of a mip level: the blocks of the
\* block-aligned width times the block size.
RowBytes(desc, mip_level) ==
    LET f == format_describe(desc.format)
    IN (RoundUp(mip_level_size(desc, mip_level).width, f.block_dimensions[1])
            \div f.block_dimensions[1]) * f.block_size

IsCommonMultiple(v, a, b) == v % a = 0 /\ v % b = 0

\* C34: the bytes_per_row of every region the synthesis emits is a multiple
\* of the buffer copy pitch and of the format's block size, is at least the
\* bytes of one row of blocks of the block-aligned mip width, and is the
\* smallest such value.
C34_BytesPerRow ==
    CollectReturned =>
        LET args == result.args
            regions == result.out_copy_regions
            block_size == format_describe(args.desc.format).block_size
        IN \A i \in 1..Len(regions) :
            LET bytes_per_row == regions[i].buffer_layout.bytes_per_row
                row == RowBytes(args.desc, regions[i].texture_base.mip_level)
            IN /\ IsCommonMultiple(bytes_per_row, args.buffer_copy_pitch, block_size)
               /\ bytes_per_row >= row
               /\ \A v \in row..(bytes_per_row - 1) :
                        ~IsCommonMultiple(v, args.buffer_copy_pitch, block_size)

\* The synthesis has returned for a texture one texel wide with a copy
\* pitch of twice the block size: the row of 4 bytes is copied with 8 bytes
\* per row.
C34_Witness ==
    /\ CollectReturned
    /\ result.args.desc.format = "Rgba8Unorm"
    /\ result.args.desc.size.width = 1
    /\ result.args.buffer_copy_pitch = BUFFER_COPY_PITCH
    /\ Len(result.out_copy_regions) > 0
    /\ result.out_copy_regions[1].buffer_layout.bytes_per_row = BUFFER_COPY_PITCH


(***************************************************************************)
(* Properties of the native calls of clear_texture.                        *)
(***************************************************************************)
\* The subresources a clear_texture call asks for: those of the texture in
\* the requested mip and layer ranges, a range without a count going to the
\* end of the texture.
Requested(args) ==
    LET full == texture_guard[args.dst].full_range
        r == args.subresource_range
    IN {t \in Subresources :
            /\ t[1] = args.dst
            /\ t[2] >= r.base_mip_level
            /\ t[2] < (IF r.mip_level_count = None THEN full.levels.end
                       ELSE r.base_mip_level + unwrap(r.mip_level_count))
            /\ t[3] >= r.base_array_layer
            /\ t[3] < (IF r.array_layer_count = None THEN full.layers.end
                       ELSE r.base_array_layer + unwrap(r.array_layer_count))}

\* The transitions to COPY_DST of the requested subresources whose usage in
\* the command buffer's tracker is another one.
CopyDstTransitions(args) ==
    {[id |-> t, old |-> cmd_buf.trackers.textures[t], new |-> {"COPY_DST"}] :
        t \in {t \in Requested(args) :
                    cmd_buf.trackers.textures[t] \notin {{}, {"COPY_DST"}}}}

IsTextureCopy(c) == c.call = "copy_buffer_to_texture"

\* C35: a clear_texture that returns Ok emits the barrier of the COPY_DST
\* transition first, if there is a transition, and then at most one
\* copy_buffer_to_texture, which reads the zero buffer and carries every
\* region of the synthesis; the copy is emitted if and only if a region
\* was generated, that is, if a subresource was requested.
C35_BarrierThenOneCopy ==
    [][(ClearTextureStep /\ result'.ret = "Ok")
        => LET args == result'.args
               barrier == Barriers("transition_textures", CopyDstTransitions(args))
               copies == SelectSeq(Emitted, IsTextureCopy)
           IN /\ SubSeq(Emitted, 1, Len(barrier)) = barrier
              /\ SubSeq(Emitted, Len(barrier) + 1, Len(Emitted)) = copies
              /\ Len(copies) <= 1
              /\ Len(copies) = 1 <=> Requested(args) # {}
              /\ \A i \in 1..Len(copies) :
                    /\ copies[i].src = "zero_buffer"
                    /\ copies[i].dst = unwrap(texture_guard[args.dst].raw)
                    /\ copies[i].regions # <<>>
                    /\ \A t \in Requested(args) :
                            RegionsOf(copies[i].regions, t[2], t[3], 0) # <<>>
                    /\ \A k \in 1..Len(copies[i].regions) :
                            <<args.dst, copies[i].regions[k].texture_base.mip_level,
                              copies[i].regions[k].texture_base.array_layer>>
                                \in Requested(args)]_vars

\* A clear_texture of the whole of texture 1, of which a pass had sampled
\* surface (1, 0, 0), has returned Ok: the barrier of that surface is
\* followed by one copy, the last native call.
C35_Witness ==
    /\ pc = "returned"
    /\ result.call = "clear_texture"
    /\ result.ret = "Ok"
    /\ Len(cmd_buf.raw) >= 2
    /\ cmd_buf.raw[Len(cmd_buf.raw) - 1].call = "transition_textures"
    /\ cmd_buf.raw[Len(cmd_buf.raw) - 1].barriers
            = {[id |-> <<1, 0, 0>>, old |-> {"RESOURCE"}, new |-> {"COPY_DST"}]}
    /\ cmd_buf.raw[Len(cmd_buf.raw)].call = "copy_buffer_to_texture"
    /\ Len(cmd_buf.raw[Len(cmd_buf.raw)].regions) > 1


(***************************************************************************)
(* Properties of the native pass.                                          *)
(***************************************************************************)
IsBeginOfPass(c) == c.call = "begin_compute_pass"

\* The positions of the native stream at which the pass is ended.
EndsOfPass == {i \in 1..Len(cmd_buf.raw) : IsEndOfPass(cmd_buf.raw[i])}

\* C36: when run_compute_pass returns, having emitted begin_compute_pass,
\* it has emitted exactly one end_compute_pass, after the begin and after
\* every native call of an opcode of the pass, whether it returns Ok or the
\* error of an opcode.
C36_PassIsBracketed ==
    (RunReturned /\ SelectSeq(cmd_buf.raw, IsBeginOfPass) # <<>>)
        => /\ Cardinality(EndsOfPass) = 1
           /\ \A e \in EndsOfPass :
                \A i \in 1..Len(cmd_buf.raw) :
                    cmd_buf.raw[i].at <= Len(base.commands) /\ ~IsFixupCall(cmd_buf.raw[i])
                        => i < e


(***************************************************************************)
(* Properties of a clear that fails.                                       *)
(***************************************************************************)
\* The step is a call of clear_buffer or clear_texture that returns an
\* error.
ClearFails ==
    /\ pc = "idle"
    /\ result'.call \in {"clear_buffer", "clear_texture"}
    /\ result'.ret = "Err"

\* C37: a clear_buffer or clear_texture call that returns an error leaves
\* the usage tracker, the lists of memory-init actions and the native
\* command stream of the command buffer exactly as they were before the
\* call.
C37_FailedClearChangesNothing ==
    [][ClearFails
        => /\ cmd_buf'.trackers = cmd_buf.trackers
           /\ cmd_buf'.buffer_memory_init_actions = cmd_buf.buffer_memory_init_actions
           /\ cmd_buf'.texture_memory_actions = cmd_buf.texture_memory_actions
           /\ cmd_buf'.raw = cmd_buf.raw]_vars


(***************************************************************************)
(* C38: every native zero-fill call and every ImplicitlyInitialized action *)
(* produced by clear_buffer has a well-formed range inside the buffer:     *)
(* start < end <= the buffer's size, whatever the offset and the size.     *)
(***************************************************************************)
WellFormedIn(range, size) == range.start < range.end /\ range.end <= size

ClearBufferReturns ==
    /\ pc = "idle"
    /\ result'.call = "clear_buffer"

NewInitActions ==
    SubSeq(cmd_buf'.buffer_memory_init_actions,
           Len(cmd_buf.buffer_memory_init_actions) + 1,
           Len(cmd_buf'.buffer_memory_init_actions))

ZeroFillsAreInBounds ==
    \A i \in DOMAIN Emitted :
        Emitted[i].call = "clear_buffer"
            => WellFormedIn(Emitted[i].range, buffer_guard[result'.args.dst].size)

InitActionsAreInBounds ==
    \A i \in DOMAIN NewInitActions :
        WellFormedIn(NewInitActions[i].range, buffer_guard[NewInitActions[i].id].size)

C38_ClearBufferRangesInBounds ==
    [][ClearBufferReturns => ZeroFillsAreInBounds /\ InitActionsAreInBounds]_vars


(***************************************************************************)
(* The regions and the scratch buffer.                                     *)
(***************************************************************************)
\* C39: every region the synthesis emits reads the scratch buffer from
\* offset 0, has a height that is a positive multiple of the format's block
\* height, and bytes_per_row * height is at most ZERO_BUFFER_SIZE.
C39_CopiesStayInScratchBuffer ==
    CollectReturned =>
        LET regions == result.out_copy_regions
            block_height == format_describe(result.args.desc.format).block_dimensions[2]
        IN \A i \in 1..Len(regions) :
            /\ regions[i].buffer_layout.offset = 0
            /\ regions[i].size.height > 0
            /\ regions[i].size.height % block_height = 0
            /\ regions[i].buffer_layout.bytes_per_row * regions[i].size.height
                    <= ZERO_BUFFER_SIZE

\* The synthesis has returned for the second mip of a block-compressed
\* texture 4 texels high: the mip is 2 texels high and its region one row of
\* blocks, which fills the scratch buffer to its last byte.
C39_Witness ==
    /\ CollectReturned
    /\ result.args.desc.format = "Bc1RgbaUnorm"
    /\ result.args.desc.size.height = 4
    /\ result.args.mip_range = Range(1, 2)
    /\ Len(result.out_copy_regions) > 0
    /\ result.out_copy_regions[1].size.height = 4
    /\ result.out_copy_regions[1].buffer_layout.bytes_per_row * 4 = ZERO_BUFFER_SIZE

(***************************************************************************)
(* The number of regions.                                                  *)
(***************************************************************************)
CeilDiv(a, b) == (a + b - 1) \div b

\* The regions one mip level takes: layers x depth slices x chunks of rows.
RegionCountOfMip(desc, buffer_copy_pitch, layer_range, mip_level) ==
    LET block_height == format_describe(desc.format).block_dimensions[2]
        height == RoundUp(mip_level_size(desc, mip_level).height, block_height)
        rows == RowsThatFit(bytes_per_row_of(desc, buffer_copy_pitch, mip_level), block_height)
    IN (layer_range.end - layer_range.start)
        * Cardinality(SlicesOf(desc, mip_level))
        * CeilDiv(height, rows)

\* The sum of RegionCountOfMip over the mip levels from..(to - 1).
RECURSIVE RegionCountOfMips(_, _, _, _, _)
RegionCountOfMips(desc, buffer_copy_pitch, layer_range, from, to) ==
    IF from < to
    THEN RegionCountOfMip(desc, buffer_copy_pitch, layer_range, from)
            + RegionCountOfMips(desc, buffer_copy_pitch, layer_range, from + 1, to)
    ELSE 0

\* The rows left of a surface before region r is emitted.
RowsLeftAt(desc, r) ==
    RoundUp(mip_level_size(desc, r.texture_base.mip_level).height,
            format_describe(desc.format).block_dimensions[2]) - r.texture_base.origin.y

\* C40: when the rows that fit the scratch buffer are positive for every
\* requested mip, the synthesis returns; on each surface the rows left
\* strictly decrease from one region to the next and the last region leaves
\* 0; the number of regions is the sum over the requested mips of layers x
\* depth slices x ceil(block-aligned mip height / max_rows_per_copy); an
\* empty mip range or layer range emits no region.
C40_RegionCount ==
    result.call = "collect_zero_buffer_copies" =>
        LET args == result.args
            regions == result.out_copy_regions
            block_height == format_describe(args.desc.format).block_dimensions[2]
        IN /\ (\A mip_level \in RangeSet(args.mip_range) :
                    RowsThatFit(bytes_per_row_of(args.desc, args.buffer_copy_pitch, mip_level),
                                block_height) > 0)
                => CollectReturned
           /\ CollectReturned =>
                /\ Len(regions) = RegionCountOfMips(args.desc, args.buffer_copy_pitch,
                                                    args.layer_range, args.mip_range.start,
                                                    args.mip_range.end)
                /\ (RangeSet(args.mip_range) = {} \/ RangeSet(args.layer_range) = {})
                        => regions = <<>>
                /\ \A mip_level \in RangeSet(args.mip_range),
                      array_layer \in RangeSet(args.layer_range) :
                     \A z \in SlicesOf(args.desc, mip_level) :
                        LET rs == RegionsOf(regions, mip_level, array_layer, z)
                        IN /\ \A i \in 1..(Len(rs) - 1) :
                                /\ RowsLeftAt(args.desc, rs[i + 1]) < RowsLeftAt(args.desc, rs[i])
                                /\ RowsLeftAt(args.desc, rs[i + 1]) > 0
                           /\ Len(rs) > 0
                           /\ RowsLeftAt(args.desc, rs[Len(rs)]) = rs[Len(rs)].size.height

\* The synthesis has returned for both mips of a 3D texture of depth 2 and
\* height 8 whose rows take the whole scratch buffer two at a time: mip 0
\* takes 2 slices x 4 chunks and mip 1 takes 1 slice x 1 chunk.
C40_Witness ==
    /\ CollectReturned
    /\ result.args.desc.format = "Rgba8Unorm"
    /\ result.args.desc.dimension = "D3"
    /\ result.args.desc.size = [width |-> 4, height |-> 8, depth_or_array_layers |-> 2]
    /\ result.args.buffer_copy_pitch = BUFFER_COPY_PITCH
    /\ result.args.mip_range = Range(0, 2)
    /\ result.args.layer_range = Range(0, 1)
    /\ Len(result.out_copy_regions) = 9

=============================================================================
